---------------------------- MODULE Spec2Model ----------------------------
(***************************************************************************)
(* A model of the SauceDemo page-object test suite.                        *)
(*                                                                         *)
(* The page objects are thin wrappers over a browser session: every        *)
(* operation clicks, fills or reads a DOM element of the page the session  *)
(* currently shows.  The state of the model is therefore the state of one  *)
(* browser session (current URL, form fields, error banner, cart lines,    *)
(* product list) plus the arguments and results of the last page-object    *)
(* call.  The responses of the application under test (what a click on     *)
(* "continue" does) are the Site... definitions; they are written down     *)
(* from what the repository's own tests and docstrings pin down, and are   *)
(* left nondeterministic wherever those say nothing.                       *)
(***************************************************************************)
EXTENDS Integers, Sequences, FiniteSets, TLC

VARIABLES
    url,        \* path of the page the session shows
    fields,     \* checkout-information form: firstName, lastName, postalCode
    banner,     \* error banner: [visible, text]; text is a sequence of words
    prevUrl,    \* url before the last operation
    filled,     \* arguments of the last fill_info call on the shown form
    submitted,  \* arguments that were in effect at the last continue click
    labels,     \* checkout overview: the subtotal, tax and total labels
    summary,    \* the PriceSummary read last
    cart,       \* cart page: the line items, in DOM order
    prevCart,   \* cart before the last operation
    attempted,  \* names add_product_to_cart was called with by the last operation
    displayed,  \* products page: the product cards, in DOM order
    prevDisplayed, \* product cards before the last sort
    sortOption, \* products page: value selected in the sort dropdown
    loginForm,  \* login page: content of the username and password inputs
    credentials, \* credentials submitted by the last login, blank before
    pendingRedirect, \* the application has yet to perform a redirect
    loadCall,   \* the is_loaded / is_page_loaded call in progress or last made
    navCall,    \* the navigation call in progress or last made
    retryCall,  \* the async_retry wrapper call in progress or last made
    cacheCall,  \* a cache_result decorator: its cache, the clock, the last call
    helperCall, \* the last call of a pure helper: its name, input and output
    rateCall, \* a rate_limit decorator: its clock, last_called and callers
    waitCall, \* the wait_for_condition call in progress or last made
    shotCall, \* the screenshot_on_failure wrapper call in progress or last made
    logState, \* the logging set-up: class and module attributes, root handlers, threads
    lastOp,     \* name of the page-object operation executed last
    arg,        \* the name passed to the last by-name operation
    ret,        \* what the last operation returned
    raised      \* whether the last operation raised

checkoutVars == <<url, fields, banner, prevUrl, filled, submitted>>
priceVars == <<labels, summary>>
cartVars == <<cart, prevCart, attempted>>
productVars == <<displayed, prevDisplayed, sortOption>>
loginVars == <<loginForm, credentials, pendingRedirect>>
utilVars == <<loadCall, navCall, retryCall, cacheCall, helperCall, rateCall, waitCall, shotCall, logState>>

\* the utilities other than the one named
exceptLoadCall == <<navCall, retryCall, cacheCall, helperCall, rateCall, waitCall, shotCall, logState>>
exceptNavCall == <<loadCall, retryCall, cacheCall, helperCall, rateCall, waitCall, shotCall, logState>>
exceptRetryCall == <<loadCall, navCall, cacheCall, helperCall, rateCall, waitCall, shotCall, logState>>
exceptCacheCall == <<loadCall, navCall, retryCall, helperCall, rateCall, waitCall, shotCall, logState>>
exceptHelperCall == <<loadCall, navCall, retryCall, cacheCall, rateCall, waitCall, shotCall, logState>>
exceptRateCall == <<loadCall, navCall, retryCall, cacheCall, helperCall, waitCall, shotCall, logState>>
exceptWaitCall == <<loadCall, navCall, retryCall, cacheCall, helperCall, rateCall, shotCall, logState>>
exceptShotCall == <<loadCall, navCall, retryCall, cacheCall, helperCall, rateCall, waitCall, logState>>
exceptLogState == <<loadCall, navCall, retryCall, cacheCall, helperCall, rateCall, waitCall, shotCall>>
callVars == <<lastOp, arg, ret, raised>>

\* everything of the browser session and of the last page-object call
browserVars == <<checkoutVars, priceVars, cartVars, productVars, loginVars, callVars>>

vars == <<browserVars, utilVars>>

(***************************************************************************)
(* Page URLs                                                               *)
(***************************************************************************)
LoginURL == "/"
InventoryURL == "/inventory.html"
CartURL == "/cart.html"
InfoURL == "/checkout-step-one.html"
OverviewURL == "/checkout-step-two.html"
CompleteURL == "/checkout-complete.html"

NoCredentials == [username |-> "", password |-> ""]

NoLoadCall == [page |-> "none", state |-> "idle", waited |-> <<>>, result |-> FALSE, raised |-> FALSE]

NoNavCall == [entry |-> "none", path |-> "None", self_url |-> "", state |-> "idle", events |-> <<>>]

NoRetryCall == [max_attempts |-> 0, delay |-> 0, backoff |-> 0, exceptions |-> {},
                state |-> "idle", attempt |-> 0, current_delay |-> 0,
                outcomes |-> <<>>, slept |-> <<>>, result |-> [kind |-> "return", value |-> "None"]]

(***************************************************************************)
(* cache_result: values, keys and entries                                  *)
(***************************************************************************)
MaxTime == 3
MaxInvocations == 3

\* ttl: None, or a number of seconds.
Ttl(none, seconds) == [none |-> none, seconds |-> seconds]
Ttls == {Ttl(TRUE, 0), Ttl(FALSE, 0), Ttl(FALSE, 2)}

\* Values passed as the one positional argument: the int 1, the float 1.0,
\* the int 2, and two distinct objects of a class whose __repr__ returns the
\* same text for both.
PyValue(type, value, id) == [type |-> type, value |-> value, id |-> id]
CacheArgs ==
    {PyValue("int", 1, 0), PyValue("float", 1, 0), PyValue("int", 2, 0),
     PyValue("Job", 0, 1), PyValue("Job", 0, 2)}

\* Python's ==: numbers compare by value across int and float, objects
\* without __eq__ by identity.
PyEq(a, b) ==
    IF a.type \in {"int", "float"} /\ b.type \in {"int", "float"}
    THEN a.value = b.value
    ELSE a = b

\* repr(): "1" for the int, "1.0" for the float, "Job()" for either object.
PyRepr(a) ==
    CASE a.type = "int" -> <<"int", a.value>>
      [] a.type = "float" -> <<"float", a.value>>
      [] OTHER -> <<"Job()", 0>>

\* cache_key = str((args, sorted(kwargs.items())))
cache_key(a) == <<"((", PyRepr(a), ",), [])">>

CacheKeys == {cache_key(a) : a \in CacheArgs}

NoEntry == [present |-> FALSE, result |-> <<>>, timestamp |-> 0]
Entry(result, timestamp) == [present |-> TRUE, result |-> result, timestamp |-> timestamp]

NoCacheCall ==
    [state |-> "idle", ttl |-> Ttl(TRUE, 0), now |-> 0, invocations |-> 0,
     cache |-> [key \in CacheKeys |-> NoEntry],
     stored |-> [a \in CacheArgs |-> NoEntry],
     last |-> [args |-> PyValue("int", 1, 0), at |-> 0, done |-> 0,
               invoked |-> FALSE, raised |-> FALSE,
               result |-> <<>>, before |-> [a \in CacheArgs |-> NoEntry]]]

NoHelperCall == [name |-> "none", input |-> <<>>, output |-> <<>>]

MaxCallers == 3
MaxClock == 6

\* time.time() when the first caller arrives: long after last_called = 0.0
Epoch == 3

RateCallers == 1..MaxCallers

NoRateCall ==
    [state |-> "idle", limit |-> [calls |-> 1, period |-> 1], now |-> Epoch, last_called |-> 0,
     pc |-> [caller \in RateCallers |-> "idle"], wake |-> [caller \in RateCallers |-> 0],
     started |-> <<>>]

NoWaitCall ==
    [state |-> "idle", timeout |-> 0, poll_interval |-> 0, elapsed |-> 0, still |-> 0,
     outcomes |-> <<>>, error |-> "none"]

NoShotCall ==
    [state |-> "idle", args |-> <<>>, kwpage |-> "absent", outcome |-> "none", attempted |-> FALSE,
     path |-> "None", result |-> "none", error |-> "none"]

MaxThreads == 2

LogThreads == 1..MaxThreads

NoLogState ==
    [instance |-> 0, initialized |-> FALSE, manager |-> 0, handlers |-> <<>>,
     setups |-> 0, created |-> 0,
     pc |-> [t \in LogThreads |-> "idle"], via |-> [t \in LogThreads |-> "none"],
     self |-> [t \in LogThreads |-> 0], observed |-> [t \in LogThreads |-> 0]]

\* the utilities are at rest
InitUtil ==
    /\ loadCall = NoLoadCall
    /\ navCall = NoNavCall
    /\ retryCall = NoRetryCall
    /\ cacheCall = NoCacheCall
    /\ helperCall = NoHelperCall
    /\ rateCall = NoRateCall
    /\ waitCall = NoWaitCall
    /\ shotCall = NoShotCall
    /\ logState = NoLogState

PageURLs == {LoginURL, InventoryURL, CartURL, InfoURL, OverviewURL, CompleteURL}
CheckoutURLs == {InfoURL, OverviewURL, CompleteURL}

(***************************************************************************)
(* Text helpers.  A text is a sequence of words; lower() maps every word   *)
(* to its lower-case form, and "needle in text" is contiguous containment. *)
(***************************************************************************)
LowerWord(w) ==
    CASE w = "Error:" -> "error:"
      [] w = "First" -> "first"
      [] w = "Last" -> "last"
      [] w = "Postal" -> "postal"
      [] w = "Name" -> "name"
      [] w = "Code" -> "code"
      [] w = "Epic" -> "epic"
      [] w = "Sorry," -> "sorry,"
      [] w = "Username" -> "username"
      [] w = "Password" -> "password"
      [] w = "Thank" -> "thank"
      [] w = "Sauce" -> "sauce"
      [] w = "Labs" -> "labs"
      [] w = "Backpack" -> "backpack"
      [] w = "Bike" -> "bike"
      [] w = "Light" -> "light"
      [] w = "Onesie" -> "onesie"
      [] OTHER -> w

Lower(text) == [i \in 1..Len(text) |-> LowerWord(text[i])]

Contains(text, needle) ==
    \E i \in 0..(Len(text) - Len(needle)) :
        \A j \in 1..Len(needle) : text[i + j] = needle[j]

(***************************************************************************)
(* pages/page_helpers.py                                                   *)
(***************************************************************************)
\* get_text: text_content() or "", stripped.  element is [present, text].
get_text(element) == IF element.present THEN element.text ELSE <<>>

\* is_visible_safe: locator.is_visible(), False on any exception.
is_visible_safe(element) == element.present /\ element.visible

(***************************************************************************)
(* Prices.  A float holding a currency amount is modelled as an integer    *)
(* number of thousandths of a dollar: float("29.99") is 29990.  A float    *)
(* addition is exact up to a rounding noise far below a cent; the noise    *)
(* is over-approximated by one thousandth either way.                      *)
(***************************************************************************)
FloatNoise == {-1, 0, 1}

\* float(text) of a two-decimal literal, given in cents.
ParseFloat(cents) == cents * 10

FloatAdd(a, b, noise) == a + b + noise

\* round(x, 2): the nearest hundredth, a tie going to the even one.
Round2(x) ==
    LET q == x \div 10
        r == x % 10
    IN  IF r < 5 THEN q * 10
        ELSE IF r > 5 THEN (q + 1) * 10
        ELSE IF q % 2 = 0 THEN q * 10 ELSE (q + 1) * 10

\* A label such as "Item total: $29.99": whether it holds a "$", and the
\* amount after it, in cents.
Label(hasDollar, cents) == [hasDollar |-> hasDollar, cents |-> cents]

NoLabels == [subtotal |-> Label(FALSE, 0), tax |-> Label(FALSE, 0), total |-> Label(FALSE, 0)]
NoSummary == [subtotal |-> 0, tax |-> 0, total |-> 0]

\* CheckoutOverviewPage._parse_price
parse_price(text) == IF text.hasDollar THEN ParseFloat(text.cents) ELSE 0

\* A get_price_summary that would derive the total from the other two amounts.
get_price_summary_Derived ==
    [subtotal |-> parse_price(labels.subtotal),
     tax |-> parse_price(labels.tax),
     total |-> Round2(parse_price(labels.subtotal) + parse_price(labels.tax))]

\* CheckoutOverviewPage.get_price_summary
get_price_summary ==
    [subtotal |-> parse_price(labels.subtotal),
     tax |-> parse_price(labels.tax),
     total |-> parse_price(labels.total)]

verify_calculation_NoRound(s, noise) == FloatAdd(s.subtotal, s.tax, noise) = s.total

\* PriceSummary.verify_calculation
verify_calculation(s, noise) ==
    Round2(FloatAdd(s.subtotal, s.tax, noise)) = Round2(s.total)

\* CheckoutOverviewPage.verify_total_calculation (checkout_page.py): the same
\* comparison on the three amounts read from the page.
verify_total_calculation(noise) ==
    LET subtotal == parse_price(labels.subtotal)
        tax == parse_price(labels.tax)
        total == parse_price(labels.total)
        expected_total == Round2(FloatAdd(subtotal, tax, noise))
        actual_total == Round2(total)
    IN  expected_total = actual_total

GetPriceSummary ==
    /\ url = OverviewURL
    /\ summary' = get_price_summary
    /\ lastOp' = "get_price_summary"
    /\ ret' = "None"
    /\ UNCHANGED <<labels, arg, raised, checkoutVars, cartVars, productVars, loginVars, utilVars>>

VerifyCalculation ==
    /\ lastOp # "init"
    /\ \E noise \in FloatNoise : ret' = verify_calculation(summary, noise)
    /\ lastOp' = "verify_calculation"
    /\ UNCHANGED <<labels, summary, arg, raised, checkoutVars, cartVars, productVars, loginVars, utilVars>>

\* CheckoutOverviewPage.verify_total_calculation (overview_page.py):
\* get_price_summary().verify_calculation()
VerifyTotalCalculation ==
    /\ url = OverviewURL
    /\ summary' = get_price_summary
    /\ \E noise \in FloatNoise : ret' = verify_calculation(get_price_summary, noise)
    /\ lastOp' = "verify_total_calculation"
    /\ UNCHANGED <<labels, arg, raised, checkoutVars, cartVars, productVars, loginVars, utilVars>>

\* CheckoutOverviewPage.verify_total_calculation (checkout_page.py)
VerifyTotalCalculationInline ==
    /\ url = OverviewURL
    /\ summary' = get_price_summary
    /\ \E noise \in FloatNoise : ret' = verify_total_calculation(noise)
    /\ lastOp' = "verify_total_calculation"
    /\ UNCHANGED <<labels, arg, raised, checkoutVars, cartVars, productVars, loginVars, utilVars>>

(***************************************************************************)
(* pages/components/error_banner.py                                        *)
(***************************************************************************)
ErrorContainer == [present |-> banner.visible, visible |-> banner.visible,
                   text |-> banner.text]

ErrorBanner_is_visible == is_visible_safe(ErrorContainer)

ErrorBanner_get_message ==
    IF ErrorBanner_is_visible THEN get_text(ErrorContainer) ELSE <<>>

NoBanner == [visible |-> FALSE, text |-> <<>>]
ShowBanner(text) == [visible |-> TRUE, text |-> text]

(***************************************************************************)
(* The application under test: checkout                                    *)
(***************************************************************************)
FirstNameError == <<"Error:", "First", "Name", "is", "required">>
LastNameError == <<"Error:", "Last", "Name", "is", "required">>
PostalCodeError == <<"Error:", "Postal", "Code", "is", "required">>

BlankForm == [firstName |-> "", lastName |-> "", postalCode |-> ""]

\* The validation errors the form may answer a submission with: one for a
\* blank field.  Which one it shows when several fields are blank is left open.
SiteValidationErrors(f) ==
    (IF f.firstName = "" THEN {FirstNameError} ELSE {})
    \cup (IF f.lastName = "" THEN {LastNameError} ELSE {})
    \cup (IF f.postalCode = "" THEN {PostalCodeError} ELSE {})

RECURSIVE SumSeq(_)
SumSeq(q) == IF q = <<>> THEN 0 ELSE Head(q) + SumSeq(Tail(q))

\* The summary the overview page shows for the lines of the cart: the item
\* total, a tax on it, and their sum.  The tax rate is the application's.
SiteTaxRates == {8, 10}

SiteSummaryLabels(target, c) ==
    IF target # OverviewURL THEN {NoLabels}
    ELSE LET itemTotal == SumSeq([i \in 1..Len(c) |-> c[i].priceCents])
         IN  { [subtotal |-> Label(TRUE, itemTotal),
                tax |-> Label(TRUE, (itemTotal * rate + 50) \div 100),
                total |-> Label(TRUE, itemTotal + (itemTotal * rate + 50) \div 100)]
               : rate \in SiteTaxRates }

\* Loading a page: a fresh document, with an empty form and no banner.
SiteLoad(target) ==
    /\ url' = target
    /\ fields' = BlankForm
    /\ filled' = BlankForm
    /\ banner' = NoBanner
    /\ labels' \in SiteSummaryLabels(target, cart)

\* Click on the element with the given test id on the page shown.
SiteClick(testId) ==
    CASE testId = "checkout" /\ url = CartURL -> SiteLoad(InfoURL)
      [] testId = "continue" /\ url = InfoURL ->
            IF SiteValidationErrors(fields) = {}
            THEN SiteLoad(OverviewURL)
            ELSE /\ \E e \in SiteValidationErrors(fields) : banner' = ShowBanner(e)
                 /\ UNCHANGED <<url, fields, filled, labels>>
      [] testId = "cancel" /\ url = InfoURL -> SiteLoad(CartURL)
      [] testId = "cancel" /\ url = OverviewURL -> SiteLoad(InventoryURL)
      [] testId = "finish" /\ url = OverviewURL -> SiteLoad(CompleteURL)
      [] testId = "back-to-products" /\ url = CompleteURL -> SiteLoad(InventoryURL)
      [] testId = "error-button" /\ url = InfoURL /\ banner.visible ->
            /\ banner' = NoBanner
            /\ UNCHANGED <<url, fields, filled, labels>>
      [] testId = "shopping_cart_link" /\ url \in PageURLs \ {LoginURL} -> SiteLoad(CartURL)
      [] OTHER -> FALSE

\* The element exists on the page shown, so that a click on it does not time out.
SiteHas(testId) ==
    \/ testId = "checkout" /\ url = CartURL
    \/ testId \in {"continue", "firstName", "lastName", "postalCode"} /\ url = InfoURL
    \/ testId = "cancel" /\ url \in {InfoURL, OverviewURL}
    \/ testId = "finish" /\ url = OverviewURL
    \/ testId = "back-to-products" /\ url = CompleteURL
    \/ testId = "error-button" /\ url = InfoURL /\ banner.visible
    \/ testId = "shopping_cart_link" /\ url \in PageURLs \ {LoginURL}

(***************************************************************************)
(* Checkout page objects                                                   *)
(***************************************************************************)
\* Bookkeeping of the call just made, for stating properties of single calls.
Op(name) ==
    /\ lastOp' = name
    /\ prevUrl' = url
    /\ arg' = <<>>
    /\ ret' = "None"
    /\ raised' = FALSE
    /\ UNCHANGED <<summary, cartVars, productVars, loginVars, utilVars>>

FieldInputs == {"", "John"}

fill_info_Swapped(first_name, last_name, postal_code) ==
    [firstName |-> last_name, lastName |-> first_name, postalCode |-> postal_code]

fill_info_PostalFromLast(first_name, last_name, postal_code) ==
    [firstName |-> first_name, lastName |-> last_name, postalCode |-> last_name]

\* CheckoutInfoPage.fill_info: fill the three inputs.
fill_info(first_name, last_name, postal_code) ==
    [firstName |-> first_name, lastName |-> last_name, postalCode |-> postal_code]

FillInfo ==
    /\ SiteHas("firstName")
    /\ \E f \in FieldInputs, l \in FieldInputs, p \in FieldInputs :
          /\ fields' = fill_info(f, l, p)
          /\ filled' = [firstName |-> f, lastName |-> l, postalCode |-> p]
    /\ Op("fill_info")
    /\ UNCHANGED <<url, banner, submitted, labels>>

InfoContinueButton == "continue"
InfoCancelButton == "cancel"
OverviewFinishButton == "finish"
OverviewCancelButton_Bug == "finish"
OverviewCancelButton == "cancel"
CompleteBackButton == "back-to-products"
CartCheckoutButton == "checkout"

\* CartPage.proceed_to_checkout
ProceedToCheckout ==
    /\ SiteHas(CartCheckoutButton)
    /\ SiteClick(CartCheckoutButton)
    /\ Op("proceed_to_checkout")
    /\ UNCHANGED submitted

\* CheckoutInfoPage.continue_checkout
ContinueCheckout ==
    /\ SiteHas(InfoContinueButton)
    /\ SiteClick(InfoContinueButton)
    /\ submitted' = filled
    /\ Op("continue_checkout")

\* CheckoutInfoPage.cancel
InfoCancel ==
    /\ SiteHas(InfoCancelButton)
    /\ SiteClick(InfoCancelButton)
    /\ Op("cancel")
    /\ UNCHANGED submitted

\* CheckoutOverviewPage.finish
Finish ==
    /\ SiteHas(OverviewFinishButton)
    /\ SiteClick(OverviewFinishButton)
    /\ Op("finish")
    /\ UNCHANGED submitted

\* CheckoutOverviewPage.cancel
OverviewCancel ==
    /\ SiteHas(OverviewCancelButton)
    /\ SiteClick(OverviewCancelButton)
    /\ Op("cancel")
    /\ UNCHANGED submitted

\* CheckoutCompletePage.go_back_to_products
GoBackToProducts ==
    /\ SiteHas(CompleteBackButton)
    /\ SiteClick(CompleteBackButton)
    /\ Op("go_back_to_products")
    /\ UNCHANGED submitted

\* ErrorBanner.dismiss: click the close button if the banner is visible.
DismissError ==
    /\ url = InfoURL
    /\ IF ErrorBanner_is_visible
       THEN SiteClick("error-button")
       ELSE UNCHANGED <<url, fields, filled, banner, labels>>
    /\ Op("dismiss")
    /\ UNCHANGED submitted

\* AuthenticatedPage cart icon: go to the cart from any logged-in page.
GoToCart ==
    /\ SiteHas("shopping_cart_link")
    /\ SiteClick("shopping_cart_link")
    /\ Op("go_to_cart")
    /\ UNCHANGED submitted

\* BasePage.navigate / PageNavigator.go of a checkout or cart page object:
\* goto(base_url + URL) in a logged-in session.
Navigate ==
    /\ url # LoginURL
    /\ \E target \in CheckoutURLs \cup {CartURL} : SiteLoad(target)
    /\ Op("navigate")
    /\ UNCHANGED submitted

InitCheckout ==
    /\ InitUtil
    /\ displayed = <<>>
    /\ prevDisplayed = <<>>
    /\ sortOption = "az"
    /\ loginForm = NoCredentials
    /\ credentials = NoCredentials
    /\ pendingRedirect = FALSE
    /\ cart = <<>>
    /\ prevCart = <<>>
    /\ attempted = <<>>
    /\ arg = <<>>
    /\ raised = FALSE
    /\ url = CartURL
    /\ fields = BlankForm
    /\ filled = BlankForm
    /\ submitted = BlankForm
    /\ banner = NoBanner
    /\ lastOp = "init"
    /\ ret = "None"
    /\ prevUrl = CartURL
    /\ labels = NoLabels
    /\ summary = NoSummary

NextCheckout ==
    \/ ProceedToCheckout
    \/ FillInfo
    \/ ContinueCheckout
    \/ OverviewCancel
    \/ InfoCancel
    \/ Finish
    \/ GoBackToProducts
    \/ DismissError
    \/ GoToCart
    \/ Navigate

SpecCheckout == InitCheckout /\ [][NextCheckout]_vars

\* The same session driven by clicks and fills only, without navigate.
NextCheckoutClicks ==
    \/ ProceedToCheckout
    \/ FillInfo
    \/ ContinueCheckout
    \/ OverviewCancel
    \/ InfoCancel
    \/ Finish
    \/ GoBackToProducts
    \/ DismissError
    \/ GoToCart

SpecCheckoutClicks == InitCheckout /\ [][NextCheckoutClicks]_vars


(***************************************************************************)
(* Price specification                                                     *)
(***************************************************************************)
\* Amounts, in cents, the overview may show.
AmountsCents == {0, 1, 240, 2999, 3238, 3239}

\* Label texts: with the amount after a "$", or without any "$".
LabelTexts == {Label(TRUE, c) : c \in AmountsCents} \cup {Label(FALSE, 0)}

InitPrice ==
    /\ InitUtil
    /\ displayed = <<>>
    /\ prevDisplayed = <<>>
    /\ sortOption = "az"
    /\ loginForm = NoCredentials
    /\ credentials = NoCredentials
    /\ pendingRedirect = FALSE
    /\ cart = <<>>
    /\ prevCart = <<>>
    /\ attempted = <<>>
    /\ arg = <<>>
    /\ raised = FALSE
    /\ url = OverviewURL
    /\ prevUrl = InfoURL
    /\ fields = BlankForm
    /\ filled = BlankForm
    /\ submitted = BlankForm
    /\ banner = NoBanner
    /\ labels \in [subtotal : LabelTexts, tax : LabelTexts, total : LabelTexts]
    /\ summary = NoSummary
    /\ lastOp = "init"
    /\ ret = "None"

NextPrice ==
    \/ GetPriceSummary
    \/ VerifyCalculation
    \/ VerifyTotalCalculation
    \/ VerifyTotalCalculationInline

SpecPrice == InitPrice /\ [][NextPrice]_vars

(***************************************************************************)
(* Price claims                                                            *)
(***************************************************************************)
\* The amount of a float holding a two-decimal amount, in cents.
Cents(x) == x \div 10

\* C4: on every triple of two-decimal amounts verify_calculation, and
\* verify_total_calculation with it, returns True exactly when subtotal plus
\* tax equals total to two decimals; (29.99, 2.40, 32.39) gives True and
\* (29.99, 2.40, 32.38) gives False.
C4_VerifyIffSumEqualsTotal ==
    lastOp \in {"verify_calculation", "verify_total_calculation"}
    => /\ ret = (Cents(summary.subtotal) + Cents(summary.tax) = Cents(summary.total))
       /\ (summary = [subtotal |-> 29990, tax |-> 2400, total |-> 32390] => ret = TRUE)
       /\ (summary = [subtotal |-> 29990, tax |-> 2400, total |-> 32380] => ret = FALSE)

C4_Witness ==
    /\ lastOp = "verify_total_calculation"
    /\ summary = [subtotal |-> 29990, tax |-> 2400, total |-> 32390]
    /\ ret = TRUE

\* The amount get_price_summary reads from one label.
AmountRead(text) == IF text.hasDollar THEN text.cents * 10 ELSE 0

\* C16 as stated: every PriceSummary returned by get_price_summary satisfies
\* total == round(subtotal + tax, 2), whatever amounts the page shows.
C16_TotalAlwaysSum ==
    lastOp = "get_price_summary"
    => summary.total = Round2(summary.subtotal + summary.tax)

\* C16: get_price_summary returns the three amounts exactly as read from the
\* page, the total included; nothing derives or checks the total, so the
\* summary satisfies total == round(subtotal + tax, 2) only when the page
\* shows such amounts.
C16_SummaryCarriesAmountsRead ==
    lastOp = "get_price_summary"
    => /\ summary.subtotal = AmountRead(labels.subtotal)
       /\ summary.tax = AmountRead(labels.tax)
       /\ summary.total = AmountRead(labels.total)

C16_Witness ==
    /\ lastOp = "get_price_summary"
    /\ summary = [subtotal |-> 29990, tax |-> 2400, total |-> 32380]
    /\ summary.total # Round2(summary.subtotal + summary.tax)

(***************************************************************************)
(* Checkout claims                                                         *)
(***************************************************************************)
RequiredFields == {"firstName", "lastName", "postalCode"}

BlankFields(f) == {k \in RequiredFields : f[k] = ""}

FieldName(k) ==
    CASE k = "firstName" -> <<"first", "name">>
      [] k = "lastName" -> <<"last", "name">>
      [] k = "postalCode" -> <<"postal", "code">>

CheckoutClickOps == {"fill_info", "continue_checkout", "cancel", "finish", "go_back_to_products"}

\* C1: a continue from Info with exactly one required field blank stays in
\* Info, shows the error banner, and the banner's message contains, ignoring
\* case, the name of the blank field.
C1_BlankFieldKeepsInfo ==
    (lastOp = "continue_checkout" /\ prevUrl = InfoURL
        /\ Cardinality(BlankFields(submitted)) = 1)
    => /\ url = InfoURL
       /\ ErrorBanner_is_visible
       /\ \A k \in BlankFields(submitted) :
             Contains(Lower(ErrorBanner_get_message), FieldName(k))

C1_Witness ==
    /\ lastOp = "continue_checkout"
    /\ prevUrl = InfoURL
    /\ BlankFields(submitted) = {"lastName"}
    /\ url = InfoURL
    /\ Contains(Lower(ErrorBanner_get_message), <<"last", "name">>)

\* C2 as stated: in every sequence of checkout page-object operations,
\* navigate included, Overview is entered only by continue_checkout from Info
\* with all three fields non-blank, and Complete only by finish from Overview.
C2_StrictOrderAllOps ==
    /\ (url = OverviewURL /\ prevUrl # OverviewURL)
       => (prevUrl = InfoURL /\ lastOp = "continue_checkout"
              /\ BlankFields(submitted) = {})
    /\ (url = CompleteURL /\ prevUrl # CompleteURL)
       => (prevUrl = OverviewURL /\ lastOp = "finish")

\* C2 amended: every operation other than navigate enters Overview only by
\* continue_checkout from Info with all three fields non-blank, and enters
\* Complete only by finish from Overview.
C2_StrictOrderClicks ==
    lastOp # "navigate"
    => /\ (url = OverviewURL /\ prevUrl # OverviewURL)
          => (prevUrl = InfoURL /\ lastOp = "continue_checkout"
                 /\ BlankFields(submitted) = {})
       /\ (url = CompleteURL /\ prevUrl # CompleteURL)
          => (prevUrl = OverviewURL /\ lastOp = "finish")

C2_Witness ==
    /\ url = CompleteURL
    /\ prevUrl = OverviewURL
    /\ lastOp = "finish"
    /\ BlankFields(submitted) = {}

\* C3 as stated: cancel happens only from Info and returns to the cart, and
\* the only checkout operation that leaves Overview is finish.
C3_OnlyInfoCancel ==
    /\ lastOp = "cancel" => (prevUrl = InfoURL /\ url = CartURL)
    /\ (prevUrl = OverviewURL /\ url # OverviewURL /\ lastOp \in CheckoutClickOps)
       => (lastOp = "finish" /\ url = CompleteURL)

\* C3 amended: cancel from Info returns to the cart and cancel from Overview
\* returns to the products page; the checkout operations that leave Overview
\* are finish, to Complete, and cancel, to the products page.
C3_TwoCancels ==
    /\ lastOp = "cancel"
       => \/ prevUrl = InfoURL /\ url = CartURL
          \/ prevUrl = OverviewURL /\ url = InventoryURL
    /\ (prevUrl = OverviewURL /\ url # OverviewURL /\ lastOp \in CheckoutClickOps)
       => \/ lastOp = "finish" /\ url = CompleteURL
          \/ lastOp = "cancel" /\ url = InventoryURL

C3_Witness ==
    /\ lastOp = "cancel"
    /\ prevUrl = OverviewURL
    /\ url = InventoryURL

(***************************************************************************)
(* pages/cart_page.py.  A cart line is one .cart_item fragment: its name,  *)
(* its description and its price label.  The text of the fragment is the   *)
(* text of its children in DOM order; the quantity, the price and the      *)
(* button caption are digits, "$" amounts and "Remove", in which no        *)
(* product name occurs, so the text that a has_text filter can match is    *)
(* the name followed by the description.                                   *)
(***************************************************************************)
MaxCartItems == 3

\* The catalogue is data of the application.  Two of its products are the
\* ones the docstrings of the page objects name; the other two stand for
\* products whose name occurs in the name or in the description of another.
Product(name, desc, priceCents) == [name |-> name, desc |-> desc, priceCents |-> priceCents]

Catalogue ==
    { Product(<<"Sauce", "Labs", "Backpack">>, <<"sleek">>, 2999),
      Product(<<"Sauce", "Labs", "Bike", "Light">>, <<"sleek">>, 999),
      Product(<<"Bike", "Light">>, <<"sleek">>, 999),
      Product(<<"Onesie">>, <<"with", "bike", "light">>, 799) }

ProductNames == {p.name : p \in Catalogue}

CartItems == Catalogue

RECURSIVE SeqsUpTo(_, _)
SeqsUpTo(S, n) ==
    IF n = 0 THEN {<<>>}
    ELSE LET shorter == SeqsUpTo(S, n - 1)
         IN  shorter \cup {Append(q, x) : q \in {r \in shorter : Len(r) = n - 1}, x \in S}

ItemText(item) == item.name \o item.desc

\* filter(has_text=item_name): substring match, case-insensitive
HasText(item, item_name) == Contains(Lower(ItemText(item)), Lower(item_name))

\* the application's answer to a click on the remove button of line i
SiteRemoveLine(c, i) == [k \in 1..(Len(c) - 1) |-> IF k < i THEN c[k] ELSE c[k + 1]]

get_cart_item_names(c) == [i \in 1..Len(c) |-> c[i].name]

get_cart_item_count(c) == Len(c)

is_cart_empty(c) == get_cart_item_count(c) = 0

is_item_in_cart(c, item_name) ==
    \E i \in 1..Len(c) : get_cart_item_names(c)[i] = item_name

\* .first of the filtered fragments; the click times out when none matches
remove_item_Last(c, item_name) ==
    LET matching == {i \in 1..Len(c) : HasText(c[i], item_name)}
    IN  IF matching = {} THEN [cart |-> c, raised |-> TRUE]
        ELSE [cart |-> SiteRemoveLine(c, CHOOSE i \in matching : \A k \in matching : k <= i),
              raised |-> FALSE]

remove_item(c, item_name) ==
    LET matching == {i \in 1..Len(c) : HasText(c[i], item_name)}
    IN  IF matching = {} THEN [cart |-> c, raised |-> TRUE]
        ELSE [cart |-> SiteRemoveLine(c, CHOOSE i \in matching : \A k \in matching : i <= k),
              raised |-> FALSE]

\* for item_name in item_names: await self.remove_item(item_name)
RECURSIVE RemoveEach(_, _)
RemoveEach(c, item_names) ==
    IF item_names = <<>> THEN [cart |-> c, raised |-> FALSE]
    ELSE LET r == remove_item(c, Head(item_names))
         IN  IF r.raised THEN r ELSE RemoveEach(r.cart, Tail(item_names))

remove_all_items(c) == RemoveEach(c, get_cart_item_names(c))

get_cart_item_prices_SkipFirst(c) == [i \in 1..(Len(c) - 1) |-> ParseFloat(c[i + 1].priceCents)]

get_cart_item_prices(c) == [i \in 1..Len(c) |-> ParseFloat(c[i].priceCents)]

\* sum(prices): 0 + p is exact; from the second addition on the float sum
\* carries a rounding error
calculate_items_total(c, noise) ==
    LET prices == get_cart_item_prices(c)
    IN  IF Len(prices) <= 1 THEN SumSeq(prices) ELSE SumSeq(prices) + noise

CartOp(name, item_name) ==
    /\ url = CartURL
    /\ lastOp' = name
    /\ arg' = item_name
    /\ prevCart' = cart
    /\ attempted' = <<>>
    /\ UNCHANGED <<checkoutVars, priceVars, productVars, loginVars, utilVars>>

RemoveItem ==
    \E item_name \in ProductNames :
        LET r == remove_item(cart, item_name)
        IN  /\ CartOp("remove_item", item_name)
            /\ cart' = r.cart
            /\ raised' = r.raised
            /\ ret' = "None"

RemoveAllItems ==
    LET r == remove_all_items(cart)
    IN  /\ CartOp("remove_all_items", <<>>)
        /\ cart' = r.cart
        /\ raised' = r.raised
        /\ ret' = "None"

CalculateItemsTotal ==
    \E noise \in FloatNoise :
        /\ CartOp("calculate_items_total", <<>>)
        /\ ret' = calculate_items_total(cart, noise)
        /\ raised' = FALSE
        /\ UNCHANGED cart

IsCartEmpty ==
    /\ CartOp("is_cart_empty", <<>>)
    /\ ret' = is_cart_empty(cart)
    /\ raised' = FALSE
    /\ UNCHANGED cart

IsItemInCart ==
    \E item_name \in ProductNames :
        /\ CartOp("is_item_in_cart", item_name)
        /\ ret' = is_item_in_cart(cart, item_name)
        /\ raised' = FALSE
        /\ UNCHANGED cart

InitCart ==
    /\ InitUtil
    /\ displayed = <<>>
    /\ prevDisplayed = <<>>
    /\ sortOption = "az"
    /\ loginForm = NoCredentials
    /\ credentials = NoCredentials
    /\ pendingRedirect = FALSE
    /\ url = CartURL
    /\ fields = BlankForm
    /\ banner = NoBanner
    /\ prevUrl = CartURL
    /\ filled = BlankForm
    /\ submitted = BlankForm
    /\ labels = NoLabels
    /\ summary = NoSummary
    /\ cart \in SeqsUpTo(CartItems, MaxCartItems)
    /\ prevCart = cart
    /\ attempted = <<>>
    /\ lastOp = "init"
    /\ arg = <<>>
    /\ ret = "None"
    /\ raised = FALSE

NextCart ==
    \/ RemoveItem
    \/ RemoveAllItems
    \/ CalculateItemsTotal
    \/ IsCartEmpty
    \/ IsItemInCart

SpecCart == InitCart /\ [][NextCart]_vars

(***************************************************************************)
(* Cart claims                                                             *)
(***************************************************************************)
DistinctNames(c) ==
    \A i, j \in 1..Len(c) : c[i].name = c[j].name => i = j

NameCollision(c) ==
    \E i, j \in 1..Len(c) : i # j /\ HasText(c[i], c[j].name)

\* C5: whatever the cart held (0..MaxCartItems lines, name collisions and
\* repeated lines included), remove_all_items completes without raising and
\* leaves a cart for which is_cart_empty is True; run on an empty cart it
\* leaves the cart empty.
C5_RemoveAllEmptiesCart ==
    lastOp = "remove_all_items" =>
        /\ ~raised
        /\ is_cart_empty(cart)

C5_Witness ==
    /\ lastOp = "remove_all_items"
    /\ Len(prevCart) = MaxCartItems
    /\ NameCollision(prevCart)
    /\ is_cart_empty(cart)

C5_WitnessAgain ==
    /\ lastOp = "remove_all_items"
    /\ prevCart = <<>>
    /\ attempted = <<>>
    /\ cart = <<>>

\* C6: in a cart with distinct item names, remove_item(n) for a name n in
\* the cart removes exactly the line named n: the count drops by one, n is
\* no longer in the cart and every other name still is.
C6_RemoveItemRemovesNamedLine ==
    (/\ lastOp = "remove_item"
     /\ DistinctNames(prevCart)
     /\ is_item_in_cart(prevCart, arg)) =>
        /\ ~raised
        /\ get_cart_item_count(cart) = get_cart_item_count(prevCart) - 1
        /\ ~is_item_in_cart(cart, arg)
        /\ \A i \in 1..Len(prevCart) :
               prevCart[i].name # arg => is_item_in_cart(cart, prevCart[i].name)

\* C7: calculate_items_total adds one term per cart line and, at currency
\* precision (rounded to cents), returns the sum of the line prices.
C7_TotalIsSumOfLinePrices ==
    /\ Len(get_cart_item_prices(cart)) = Len(cart)
    /\ lastOp = "calculate_items_total" =>
           /\ ~raised
           /\ Round2(ret) = ParseFloat(SumSeq([i \in 1..Len(cart) |-> cart[i].priceCents]))

C7_Witness ==
    /\ lastOp = "calculate_items_total"
    /\ Len(cart) = MaxCartItems
    /\ \E i, j \in 1..Len(cart) : cart[i].priceCents # cart[j].priceCents
    /\ ret # ParseFloat(SumSeq([i \in 1..Len(cart) |-> cart[i].priceCents]))

(***************************************************************************)
(* pages/products_page.py: sorting.  Python compares strings by code       *)
(* point; NameOrder is the rank of a product name in that order.           *)
(***************************************************************************)
MaxDisplayed == 3

NameOrder(name) ==
    CASE name = <<"Bike", "Light">> -> 1
      [] name = <<"Onesie">> -> 2
      [] name = <<"Sauce", "Labs", "Backpack">> -> 3
      [] name = <<"Sauce", "Labs", "Bike", "Light">> -> 4

SortOptions == {"az", "za", "lohi", "hilo"}
SortInputs == SortOptions \cup {"price"}

\* sorted(values, reverse=...): a stable sort, here by insertion.  The
\* elements carry the key Python compares them by.
Keyed(key, val) == [key |-> key, val |-> val]

Insert(x, acc, reverse) ==
    LET before == {i \in 1..Len(acc) :
                      IF reverse THEN acc[i].key >= x.key ELSE acc[i].key <= x.key}
        k == Cardinality(before)
    IN  SubSeq(acc, 1, k) \o <<x>> \o SubSeq(acc, k + 1, Len(acc))

RECURSIVE SortInto(_, _, _)
SortInto(q, acc, reverse) ==
    IF q = <<>> THEN acc ELSE SortInto(Tail(q), Insert(Head(q), acc, reverse), reverse)

sorted(q, reverse) ==
    LET r == SortInto(q, <<>>, reverse) IN [i \in 1..Len(r) |-> r[i].val]

sorted_names(names, reverse) ==
    sorted([i \in 1..Len(names) |-> Keyed(NameOrder(names[i]), names[i])], reverse)

sorted_prices(prices, reverse) ==
    sorted([i \in 1..Len(prices) |-> Keyed(prices[i], prices[i])], reverse)

get_all_product_names(d) == [i \in 1..Len(d) |-> d[i].name]

get_all_product_prices(d) == [i \in 1..Len(d) |-> ParseFloat(d[i].priceCents)]

verify_products_sorted_alphabetically_asc(d) ==
    LET names == get_all_product_names(d) IN names = sorted_names(names, FALSE)

verify_products_sorted_alphabetically_desc(d) ==
    LET names == get_all_product_names(d) IN names = sorted_names(names, TRUE)

verify_products_sorted_by_price_asc(d) ==
    LET prices == get_all_product_prices(d) IN prices = sorted_prices(prices, FALSE)

verify_products_sorted_by_price_desc_NoReverse(d) ==
    LET prices == get_all_product_prices(d) IN prices = sorted_prices(prices, FALSE)

verify_products_sorted_by_price_desc(d) ==
    LET prices == get_all_product_prices(d) IN prices = sorted_prices(prices, TRUE)

\* The application's answer to the selection of a sort option: the same
\* cards, ordered by the key of the option.  The order it gives to cards
\* with equal keys is its own.
SiteSortKey(p, option) ==
    IF option \in {"az", "za"} THEN NameOrder(p.name) ELSE p.priceCents

SiteOrdered(q, option) ==
    \A i \in 1..(Len(q) - 1) :
        IF option \in {"za", "hilo"}
        THEN SiteSortKey(q[i], option) >= SiteSortKey(q[i + 1], option)
        ELSE SiteSortKey(q[i], option) <= SiteSortKey(q[i + 1], option)

SiteSelectSort(d, option) ==
    {q \in {[i \in 1..Len(d) |-> d[f[i]]] : f \in Permutations(1..Len(d))} :
        SiteOrdered(q, option)}

\* select_option(dropdown, sort_option), then the fixed wait
sort_products_AlwaysAZ(d, sort_option) == SiteSelectSort(d, "az")

sort_products(d, sort_option) == SiteSelectSort(d, sort_option)

ProductOp(name) ==
    /\ url = InventoryURL
    /\ lastOp' = name
    /\ UNCHANGED <<checkoutVars, priceVars, cartVars, loginVars, utilVars>>

SortProducts ==
    \E sort_option \in SortInputs :
        /\ ProductOp("sort_products")
        /\ arg' = <<sort_option>>
        /\ ret' = "None"
        /\ IF sort_option \in SortOptions
           THEN /\ displayed' \in sort_products(displayed, sort_option)
                /\ prevDisplayed' = displayed
                /\ sortOption' = sort_option
                /\ raised' = FALSE
           ELSE /\ raised' = TRUE
                /\ UNCHANGED productVars

Returns(result) ==
    /\ arg' = <<>>
    /\ ret' = result
    /\ raised' = FALSE
    /\ UNCHANGED productVars

VerifySortedAlphabeticallyAsc ==
    /\ ProductOp("verify_products_sorted_alphabetically_asc")
    /\ Returns(verify_products_sorted_alphabetically_asc(displayed))

VerifySortedAlphabeticallyDesc ==
    /\ ProductOp("verify_products_sorted_alphabetically_desc")
    /\ Returns(verify_products_sorted_alphabetically_desc(displayed))

VerifySortedByPriceAsc ==
    /\ ProductOp("verify_products_sorted_by_price_asc")
    /\ Returns(verify_products_sorted_by_price_asc(displayed))

VerifySortedByPriceDesc ==
    /\ ProductOp("verify_products_sorted_by_price_desc")
    /\ Returns(verify_products_sorted_by_price_desc(displayed))

InitSort ==
    /\ InitUtil
    /\ url = InventoryURL
    /\ fields = BlankForm
    /\ banner = NoBanner
    /\ prevUrl = InventoryURL
    /\ filled = BlankForm
    /\ submitted = BlankForm
    /\ labels = NoLabels
    /\ summary = NoSummary
    /\ cart = <<>>
    /\ prevCart = <<>>
    /\ attempted = <<>>
    /\ displayed \in SeqsUpTo(Catalogue, MaxDisplayed)
    /\ prevDisplayed = displayed
    /\ sortOption = "az"
    /\ loginForm = NoCredentials
    /\ credentials = NoCredentials
    /\ pendingRedirect = FALSE
    /\ lastOp = "init"
    /\ arg = <<>>
    /\ ret = "None"
    /\ raised = FALSE

NextSort ==
    \/ SortProducts
    \/ VerifySortedAlphabeticallyAsc
    \/ VerifySortedAlphabeticallyDesc
    \/ VerifySortedByPriceAsc
    \/ VerifySortedByPriceDesc

SpecSort == InitSort /\ [][NextSort]_vars

(***************************************************************************)
(* Sorting claims                                                          *)
(***************************************************************************)
NonDecreasing(keys) == \A i, j \in 1..Len(keys) : i < j => keys[i] <= keys[j]
NonIncreasing(keys) == \A i, j \in 1..Len(keys) : i < j => keys[i] >= keys[j]

NameKeys(d) == [i \in 1..Len(d) |-> NameOrder(d[i].name)]
PriceKeys(d) == [i \in 1..Len(d) |-> ParseFloat(d[i].priceCents)]

\* C8: after sort_products(mode), for each of the four modes, the displayed
\* names (az, za) or prices (lohi, hilo) are the stably sorted names or
\* prices displayed before the sort, and the matching verify operation
\* returns True.
C8_SortGivesSortedSequence ==
    (lastOp = "sort_products" /\ arg[1] \in SortOptions) =>
        /\ ~raised
        /\ sortOption = arg[1]
        /\ arg[1] = "az" =>
               /\ get_all_product_names(displayed)
                      = sorted_names(get_all_product_names(prevDisplayed), FALSE)
               /\ verify_products_sorted_alphabetically_asc(displayed)
        /\ arg[1] = "za" =>
               /\ get_all_product_names(displayed)
                      = sorted_names(get_all_product_names(prevDisplayed), TRUE)
               /\ verify_products_sorted_alphabetically_desc(displayed)
        /\ arg[1] = "lohi" =>
               /\ get_all_product_prices(displayed)
                      = sorted_prices(get_all_product_prices(prevDisplayed), FALSE)
               /\ verify_products_sorted_by_price_asc(displayed)
        /\ arg[1] = "hilo" =>
               /\ get_all_product_prices(displayed)
                      = sorted_prices(get_all_product_prices(prevDisplayed), TRUE)
               /\ verify_products_sorted_by_price_desc(displayed)

C8_Witness ==
    /\ lastOp = "sort_products"
    /\ arg = <<"hilo">>
    /\ Len(displayed) = MaxDisplayed
    /\ displayed # prevDisplayed
    /\ \E i, j \in 1..Len(displayed) :
           i # j /\ displayed[i].priceCents = displayed[j].priceCents
    /\ verify_products_sorted_by_price_desc(displayed)

\* C9: each verify_products_sorted_* operation returns True exactly when
\* the displayed names or prices are in order (ascending for the asc
\* variants, descending for the desc variants), whatever sort option is
\* selected and whatever was displayed before; so it returns True for an
\* empty and for a single-entry list.
C9_VerifyIsPureComparison ==
    /\ lastOp = "verify_products_sorted_alphabetically_asc" =>
           ret = NonDecreasing(NameKeys(displayed))
    /\ lastOp = "verify_products_sorted_alphabetically_desc" =>
           ret = NonIncreasing(NameKeys(displayed))
    /\ lastOp = "verify_products_sorted_by_price_asc" =>
           ret = NonDecreasing(PriceKeys(displayed))
    /\ lastOp = "verify_products_sorted_by_price_desc" =>
           ret = NonIncreasing(PriceKeys(displayed))
    /\ (/\ lastOp \in {"verify_products_sorted_alphabetically_asc",
                       "verify_products_sorted_alphabetically_desc",
                       "verify_products_sorted_by_price_asc",
                       "verify_products_sorted_by_price_desc"}
        /\ Len(displayed) <= 1) => ret = TRUE

C9_Witness ==
    /\ lastOp = "verify_products_sorted_by_price_desc"
    /\ sortOption = "az"
    /\ Len(displayed) = MaxDisplayed
    /\ displayed # prevDisplayed
    /\ ret = TRUE
    /\ ~verify_products_sorted_by_price_asc(displayed)

C9_WitnessFalse ==
    /\ lastOp = "verify_products_sorted_by_price_desc"
    /\ sortOption = "lohi"
    /\ ret = FALSE

C9_WitnessEmpty ==
    /\ lastOp = "verify_products_sorted_alphabetically_desc"
    /\ displayed = <<>>
    /\ ret = TRUE

(***************************************************************************)
(* config/settings.py: test users                                          *)
(***************************************************************************)
standard_user == "standard_user"
standard_password == "secret_sauce"
locked_out_user == "locked_out_user"
performance_glitch_user == "performance_glitch_user"
default_password == "secret_sauce"

UsernameInputs == {"", standard_user, locked_out_user, performance_glitch_user, "invalid_user"}
PasswordInputs == {"", standard_password, "wrong_password"}

Credentials(username, password) == [username |-> username, password |-> password]

(***************************************************************************)
(* The application under test: login.  The glitch user is redirected       *)
(* late: the redirect may still be pending when login() returns.           *)
(***************************************************************************)
LockedOutError ==
    <<"Epic", "sadface:", "Sorry,", "this", "user", "has", "been", "locked", "out", ".">>
UsernameRequiredError == <<"Epic", "sadface:", "Username", "is", "required">>
PasswordRequiredError == <<"Epic", "sadface:", "Password", "is", "required">>
NoMatchError == <<"Epic", "sadface:", "Username", "and", "password", "do", "not", "match">>

SiteAnswer(target, error, pending) == [url |-> target, banner |-> error, pending |-> pending]

SiteLogin(form, late) ==
    CASE form.username = "" ->
            SiteAnswer(LoginURL, ShowBanner(UsernameRequiredError), FALSE)
      [] form.username # "" /\ form.password = "" ->
            SiteAnswer(LoginURL, ShowBanner(PasswordRequiredError), FALSE)
      [] form = Credentials(locked_out_user, "secret_sauce") ->
            SiteAnswer(LoginURL, ShowBanner(LockedOutError), FALSE)
      [] form = Credentials(standard_user, "secret_sauce") ->
            SiteAnswer(InventoryURL, NoBanner, FALSE)
      [] form = Credentials(performance_glitch_user, "secret_sauce") ->
            IF late THEN SiteAnswer(LoginURL, NoBanner, TRUE)
            ELSE SiteAnswer(InventoryURL, NoBanner, FALSE)
      [] OTHER ->
            SiteAnswer(LoginURL, ShowBanner(NoMatchError), FALSE)

(***************************************************************************)
(* pages/login_page.py                                                     *)
(***************************************************************************)
\* enter_username, enter_password, click_login_button
login(username, password) == Credentials(username, password)

login_with_standard_user == login(standard_user, standard_password)

login_with_locked_user == login(locked_out_user, default_password)

\* page.wait_for_url("**/inventory.html"): raises on timeout
wait_for_url(current, pending, arrives) ==
    [raised |-> ~(current = InventoryURL \/ (pending /\ arrives))]

is_login_successful_NoCatch(waited) ==
    IF waited.raised THEN [value |-> FALSE, raised |-> TRUE]
    ELSE [value |-> TRUE, raised |-> FALSE]

is_login_successful(waited) ==
    IF waited.raised THEN [value |-> FALSE, raised |-> FALSE]
    ELSE [value |-> TRUE, raised |-> FALSE]

is_error_displayed == url = LoginURL /\ banner.visible

get_error_message == IF is_error_displayed THEN banner.text ELSE <<>>

LoginOp(name) ==
    /\ url \in {LoginURL, InventoryURL}
    /\ lastOp' = name
    /\ prevUrl' = url
    /\ arg' = <<>>
    /\ UNCHANGED <<fields, filled, submitted, priceVars, cartVars, productVars, utilVars>>

Submit(form) ==
    \E late \in BOOLEAN :
        LET answer == SiteLogin(form, late)
        IN  /\ url = LoginURL
            /\ ~pendingRedirect
            /\ loginForm' = form
            /\ credentials' = form
            /\ url' = answer.url
            /\ banner' = answer.banner
            /\ pendingRedirect' = answer.pending
            /\ ret' = "None"
            /\ raised' = FALSE

Login ==
    \E username \in UsernameInputs, password \in PasswordInputs :
        /\ LoginOp("login")
        /\ Submit(login(username, password))

LoginWithStandardUser ==
    /\ LoginOp("login")
    /\ Submit(login_with_standard_user)

LoginWithLockedUser ==
    /\ LoginOp("login")
    /\ Submit(login_with_locked_user)

IsLoginSuccessful ==
    \E arrives \in BOOLEAN :
        LET r == is_login_successful(wait_for_url(url, pendingRedirect, arrives))
        IN  /\ LoginOp("is_login_successful")
            /\ ret' = r.value
            /\ raised' = r.raised
            /\ url' = IF pendingRedirect /\ arrives THEN InventoryURL ELSE url
            /\ pendingRedirect' = (pendingRedirect /\ ~arrives)
            /\ UNCHANGED <<banner, loginForm, credentials>>

IsErrorDisplayed ==
    /\ LoginOp("is_error_displayed")
    /\ ret' = is_error_displayed
    /\ raised' = FALSE
    /\ UNCHANGED <<url, banner, loginVars, utilVars>>

GetErrorMessage ==
    /\ LoginOp("get_error_message")
    /\ ret' = get_error_message
    /\ raised' = FALSE
    /\ UNCHANGED <<url, banner, loginVars, utilVars>>

CloseErrorMessage ==
    /\ LoginOp("close_error_message")
    /\ banner' = IF is_error_displayed THEN NoBanner ELSE banner
    /\ ret' = "None"
    /\ raised' = FALSE
    /\ UNCHANGED <<url, loginVars, utilVars>>

LoginNavigate ==
    /\ LoginOp("navigate")
    /\ url' = LoginURL
    /\ banner' = NoBanner
    /\ loginForm' = NoCredentials
    /\ credentials' = NoCredentials
    /\ pendingRedirect' = FALSE
    /\ ret' = "None"
    /\ raised' = FALSE

InitLogin ==
    /\ InitUtil
    /\ url = LoginURL
    /\ fields = BlankForm
    /\ banner = NoBanner
    /\ prevUrl = LoginURL
    /\ filled = BlankForm
    /\ submitted = BlankForm
    /\ labels = NoLabels
    /\ summary = NoSummary
    /\ cart = <<>>
    /\ prevCart = <<>>
    /\ attempted = <<>>
    /\ displayed = <<>>
    /\ prevDisplayed = <<>>
    /\ sortOption = "az"
    /\ loginForm = NoCredentials
    /\ credentials = NoCredentials
    /\ pendingRedirect = FALSE
    /\ lastOp = "init"
    /\ arg = <<>>
    /\ ret = "None"
    /\ raised = FALSE

NextLogin ==
    \/ Login
    \/ LoginWithStandardUser
    \/ LoginWithLockedUser
    \/ IsLoginSuccessful
    \/ IsErrorDisplayed
    \/ GetErrorMessage
    \/ CloseErrorMessage
    \/ LoginNavigate

SpecLogin == InitLogin /\ [][NextLogin]_vars

(***************************************************************************)
(* Login claims                                                            *)
(***************************************************************************)
\* C10: after login with the standard user's credentials the session is on
\* the inventory URL and is_login_successful returns True; after login with
\* the locked-out user's credentials the session stays on the login page,
\* is_login_successful returns False without raising, and the error banner
\* shown by the login is visible with a text containing "locked out".
C10_LoginOutcome ==
    /\ credentials = Credentials(standard_user, standard_password) =>
           /\ url = InventoryURL
           /\ lastOp = "is_login_successful" => (~raised /\ ret = TRUE)
    /\ credentials = Credentials(locked_out_user, default_password) =>
           /\ url = LoginURL
           /\ ~pendingRedirect
           /\ lastOp = "is_login_successful" => (~raised /\ ret = FALSE)
           /\ lastOp = "login" => is_error_displayed
           /\ is_error_displayed =>
                  Contains(Lower(get_error_message), <<"locked", "out">>)

C10_Witness ==
    /\ credentials = Credentials(locked_out_user, default_password)
    /\ lastOp = "is_login_successful"
    /\ ret = FALSE
    /\ is_error_displayed

C10_WitnessStandard ==
    /\ credentials = Credentials(standard_user, standard_password)
    /\ lastOp = "is_login_successful"
    /\ ret = TRUE

(***************************************************************************)
(* pages/products_page.py: cart operations.  The cart of the session is    *)
(* the sequence of products in the order they were added; a product card   *)
(* carries the add button while its product is not in the cart and the     *)
(* remove button while it is, and the header badge shows the number of     *)
(* products in the cart and is absent when there is none.                  *)
(***************************************************************************)
InCart(p, c) == \E k \in 1..Len(c) : c[k] = p

SiteAddToCart(c, p) == Append(c, p)

SiteRemoveFromCart(c, p) == SelectSeq(c, LAMBDA x : x # p)

\* text of a number and int(text), for counts below 100
Digits(n) == IF n < 10 THEN <<n>> ELSE <<n \div 10, n % 10>>

ParseInt(text) == IF Len(text) = 1 THEN text[1] ELSE 10 * text[1] + text[2]

SiteBadge(c) ==
    [present |-> Len(c) > 0, visible |-> Len(c) > 0, text |-> Digits(Len(c))]

\* locator(".inventory_item").filter(has_text=product_name).first:
\* the index of the card, 0 when no card matches
FirstCard(d, product_name) ==
    LET matching == {i \in 1..Len(d) : HasText(d[i], product_name)}
    IN  IF matching = {} THEN 0 ELSE CHOOSE i \in matching : \A k \in matching : i <= k

get_product_count(d) == Len(d)

add_product_to_cart_Absorb(d, c, product_name) ==
    LET i == FirstCard(d, product_name)
    IN  IF i = 0 \/ InCart(d[i], c) THEN [cart |-> c, raised |-> FALSE]
        ELSE [cart |-> SiteAddToCart(c, d[i]), raised |-> FALSE]

\* the click on the add button times out when there is no such card or the
\* card carries no add button; the exception is re-raised as
\* ElementNotFoundError
add_product_to_cart(d, c, product_name) ==
    LET i == FirstCard(d, product_name)
    IN  IF i = 0 \/ InCart(d[i], c) THEN [cart |-> c, raised |-> TRUE]
        ELSE [cart |-> SiteAddToCart(c, d[i]), raised |-> FALSE]

remove_product_from_cart(d, c, product_name) ==
    LET i == FirstCard(d, product_name)
    IN  IF i = 0 \/ ~InCart(d[i], c) THEN [cart |-> c, raised |-> TRUE]
        ELSE [cart |-> SiteRemoveFromCart(c, d[i]), raised |-> FALSE]

\* for product_name in product_names: await self.add_product_to_cart(product_name)
RECURSIVE AddEach(_, _, _)
AddEach(d, c, product_names) ==
    IF product_names = <<>> THEN [cart |-> c, raised |-> FALSE, attempted |-> <<>>]
    ELSE LET r == add_product_to_cart(d, c, Head(product_names))
         IN  IF r.raised
             THEN [cart |-> r.cart, raised |-> TRUE, attempted |-> <<Head(product_names)>>]
             ELSE LET rest == AddEach(d, r.cart, Tail(product_names))
                  IN  [rest EXCEPT !.attempted = <<Head(product_names)>> \o @]

\* An add_multiple_products_to_cart that would undo its additions on failure.
add_multiple_products_to_cart_Rollback(d, c, product_names) ==
    LET r == AddEach(d, c, product_names)
    IN  IF r.raised THEN [r EXCEPT !.cart = c] ELSE r

add_multiple_products_to_cart(d, c, product_names) == AddEach(d, c, product_names)

add_all_products_to_cart(d, c) ==
    add_multiple_products_to_cart(d, c, get_all_product_names(d))

\* remove_button.is_visible() is False when nothing matches
is_product_in_cart(d, c, product_name) ==
    LET i == FirstCard(d, product_name)
    IN  IF i = 0 THEN FALSE ELSE InCart(d[i], c)

get_cart_badge_count(c) ==
    IF SiteBadge(c).visible THEN ParseInt(SiteBadge(c).text) ELSE 0

CartIcon_get_count(c) ==
    IF is_visible_safe(SiteBadge(c))
    THEN (IF get_text(SiteBadge(c)) # <<>> THEN ParseInt(get_text(SiteBadge(c))) ELSE 0)
    ELSE 0

ShopOp(name, product_name) ==
    /\ url = InventoryURL
    /\ lastOp' = name
    /\ arg' = product_name
    /\ prevCart' = cart
    /\ UNCHANGED <<checkoutVars, priceVars, productVars, loginVars, utilVars>>

AddProductToCart ==
    \E product_name \in ProductNames :
        LET r == add_product_to_cart(displayed, cart, product_name)
        IN  /\ ShopOp("add_product_to_cart", product_name)
            /\ attempted' = <<product_name>>
            /\ cart' = r.cart
            /\ raised' = r.raised
            /\ ret' = "None"

RemoveProductFromCart ==
    \E product_name \in ProductNames :
        LET r == remove_product_from_cart(displayed, cart, product_name)
        IN  /\ ShopOp("remove_product_from_cart", product_name)
            /\ attempted' = <<>>
            /\ cart' = r.cart
            /\ raised' = r.raised
            /\ ret' = "None"

AddAllProductsToCart ==
    LET r == add_all_products_to_cart(displayed, cart)
    IN  /\ ShopOp("add_all_products_to_cart", <<>>)
        /\ attempted' = r.attempted
        /\ cart' = r.cart
        /\ raised' = r.raised
        /\ ret' = "None"

\* longest list of names passed to add_multiple_products_to_cart
MaxNames == 2

AddMultipleProductsToCart ==
    \E product_names \in SeqsUpTo(ProductNames, MaxNames) :
        LET r == add_multiple_products_to_cart(displayed, cart, product_names)
        IN  /\ ShopOp("add_multiple_products_to_cart", product_names)
            /\ attempted' = r.attempted
            /\ cart' = r.cart
            /\ raised' = r.raised
            /\ ret' = "None"

IsProductInCart ==
    \E product_name \in ProductNames :
        /\ ShopOp("is_product_in_cart", product_name)
        /\ attempted' = <<>>
        /\ ret' = is_product_in_cart(displayed, cart, product_name)
        /\ raised' = FALSE
        /\ UNCHANGED cart

GetCartBadgeCount ==
    /\ ShopOp("get_cart_badge_count", <<>>)
    /\ attempted' = <<>>
    /\ ret' = get_cart_badge_count(cart)
    /\ raised' = FALSE
    /\ UNCHANGED cart

CartIconGetCount ==
    /\ ShopOp("get_count", <<>>)
    /\ attempted' = <<>>
    /\ ret' = CartIcon_get_count(cart)
    /\ raised' = FALSE
    /\ UNCHANGED cart

\* the cards of a products page: distinct products of the catalogue
DistinctSeqsUpTo(S, n) ==
    {q \in SeqsUpTo(S, n) : \A i, j \in 1..Len(q) : q[i] = q[j] => i = j}

InitShop ==
    /\ InitUtil
    /\ url = InventoryURL
    /\ fields = BlankForm
    /\ banner = NoBanner
    /\ prevUrl = InventoryURL
    /\ filled = BlankForm
    /\ submitted = BlankForm
    /\ labels = NoLabels
    /\ summary = NoSummary
    /\ cart = <<>>
    /\ prevCart = <<>>
    /\ attempted = <<>>
    /\ displayed \in DistinctSeqsUpTo(Catalogue, MaxDisplayed)
    /\ prevDisplayed = displayed
    /\ sortOption = "az"
    /\ loginForm = NoCredentials
    /\ credentials = NoCredentials
    /\ pendingRedirect = FALSE
    /\ lastOp = "init"
    /\ arg = <<>>
    /\ ret = "None"
    /\ raised = FALSE

NextShop ==
    \/ AddProductToCart
    \/ RemoveProductFromCart
    \/ AddAllProductsToCart
    \/ IsProductInCart
    \/ GetCartBadgeCount
    \/ CartIconGetCount

SpecShop == InitShop /\ [][NextShop]_vars

(***************************************************************************)
(* The purchase flow end to end: login, products page, cart, checkout.     *)
(* The overview page lists the lines of the cart; the complete page shows  *)
(* the confirmation header.                                                *)
(***************************************************************************)
SiteOverviewItems == IF url = OverviewURL THEN cart ELSE <<>>

ThankYouHeader == <<"Thank", "you", "for", "your", "order", "!">>

SiteCompleteHeader ==
    [present |-> url = CompleteURL, visible |-> url = CompleteURL,
     text |-> IF url = CompleteURL THEN ThankYouHeader ELSE <<>>]

\* CheckoutOverviewPage.get_item_names: one name per .cart_item
get_item_names == [i \in 1..Len(SiteOverviewItems) |-> SiteOverviewItems[i].name]

is_order_complete_NoLower ==
    IF SiteCompleteHeader.visible
    THEN Contains(get_text(SiteCompleteHeader), <<"thank", "you">>)
    ELSE FALSE

\* CheckoutCompletePage.is_order_complete: the wait for the header raises
\* when it does not show, and the exception becomes False
is_order_complete ==
    IF SiteCompleteHeader.visible
    THEN Contains(Lower(get_text(SiteCompleteHeader)), <<"thank", "you">>)
    ELSE FALSE

ReadOp(name) ==
    /\ url \in PageURLs \ {LoginURL}
    /\ lastOp' = name
    /\ arg' = <<>>
    /\ raised' = FALSE
    /\ UNCHANGED <<checkoutVars, priceVars, cartVars, productVars, loginVars, utilVars>>

GetItemNames ==
    /\ ReadOp("get_item_names")
    /\ ret' = get_item_names

IsOrderComplete ==
    /\ ReadOp("is_order_complete")
    /\ ret' = is_order_complete

\* the listings of the products page the flow is run on: one with the
\* products the docstrings name, one where a name occurs in another card
E2EListings ==
    { << Product(<<"Sauce", "Labs", "Backpack">>, <<"sleek">>, 2999),
         Product(<<"Sauce", "Labs", "Bike", "Light">>, <<"sleek">>, 999),
         Product(<<"Onesie">>, <<"with", "bike", "light">>, 799) >>,
      << Product(<<"Bike", "Light">>, <<"sleek">>, 999),
         Product(<<"Sauce", "Labs", "Bike", "Light">>, <<"sleek">>, 999),
         Product(<<"Sauce", "Labs", "Backpack">>, <<"sleek">>, 2999) >> }

InitE2E ==
    /\ InitUtil
    /\ url = LoginURL
    /\ fields = BlankForm
    /\ banner = NoBanner
    /\ prevUrl = LoginURL
    /\ filled = BlankForm
    /\ submitted = BlankForm
    /\ labels = NoLabels
    /\ summary = NoSummary
    /\ cart = <<>>
    /\ prevCart = <<>>
    /\ attempted = <<>>
    /\ displayed \in E2EListings
    /\ prevDisplayed = displayed
    /\ sortOption = "az"
    /\ loginForm = NoCredentials
    /\ credentials = NoCredentials
    /\ pendingRedirect = FALSE
    /\ lastOp = "init"
    /\ arg = <<>>
    /\ ret = "None"
    /\ raised = FALSE

NextE2E ==
    \/ LoginWithStandardUser
    \/ AddProductToCart
    \/ GoToCart
    \/ RemoveItem
    \/ ProceedToCheckout
    \/ FillInfo
    \/ ContinueCheckout
    \/ GetItemNames
    \/ VerifyTotalCalculation
    \/ Finish
    \/ IsOrderComplete

SpecE2E == InitE2E /\ [][NextE2E]_vars

(***************************************************************************)
(* End-to-end claims                                                       *)
(***************************************************************************)
\* C11: in the flow that starts with the standard user's login, whatever
\* was added to and removed from the cart: continue with three non-blank
\* fields reaches the overview, the overview lists exactly the lines of the
\* cart (a line removed from the cart is not listed),
\* verify_total_calculation returns True there, finish reaches the complete
\* page and is_order_complete returns True on it.
C11_PurchaseFlow ==
    /\ (lastOp = "continue_checkout" /\ \A k \in DOMAIN submitted : submitted[k] # "") =>
           url = OverviewURL
    /\ url = OverviewURL =>
           /\ get_item_names = get_cart_item_names(cart)
           /\ \A k \in 1..Len(prevCart) :
                  ~InCart(prevCart[k], cart) =>
                      \A i \in 1..Len(get_item_names) : get_item_names[i] # prevCart[k].name
    /\ (lastOp = "get_item_names" /\ url = OverviewURL) => ret = get_cart_item_names(cart)
    /\ lastOp = "verify_total_calculation" => ret = TRUE
    /\ lastOp = "finish" => url = CompleteURL
    /\ (lastOp = "is_order_complete" /\ url = CompleteURL) => ret = TRUE

C11_Witness ==
    /\ credentials = Credentials(standard_user, standard_password)
    /\ lastOp = "is_order_complete"
    /\ url = CompleteURL
    /\ ret = TRUE
    /\ Len(cart) = 2
    /\ Len(prevCart) = 3
    /\ summary.total > 0

C11_WitnessOverview ==
    /\ lastOp = "get_item_names"
    /\ url = OverviewURL
    /\ Len(ret) = 2
    /\ cart = SubSeq(displayed, 1, 2)

(***************************************************************************)
(* Load-readiness predicates (is_loaded / is_page_loaded).  Each waits     *)
(* for the landmarks of its page one after the other inside one try        *)
(* block; a wait that times out or fails raises.                           *)
(***************************************************************************)
PageObjects ==
    {"LoginPage", "ProductsPage", "CartPage", "CheckoutInfoPage",
     "CheckoutOverviewPage", "CheckoutCompletePage",
     "checkout_page.CheckoutInformationPage", "checkout_page.CheckoutOverviewPage",
     "checkout_page.CheckoutCompletePage"}

Landmarks(page) ==
    CASE page = "LoginPage" -> <<"username_input", "password_input", "login_button">>
      [] page = "ProductsPage" -> <<"page_title", "product_items">>
      [] page = "CartPage" -> <<"page_title", "checkout_button">>
      [] page = "CheckoutInfoPage" -> <<"title", "first_name">>
      [] page = "CheckoutOverviewPage" -> <<"title", "finish_button">>
      [] page = "CheckoutCompletePage" -> <<"complete_header", "back_button">>
      [] page = "checkout_page.CheckoutInformationPage" -> <<"page_title", "first_name_input">>
      [] page = "checkout_page.CheckoutOverviewPage" -> <<"page_title", "finish_button">>
      [] page = "checkout_page.CheckoutCompletePage" -> <<"page_title", "complete_header">>

\* wait_for(state="visible", timeout=5000): returns at once when the element
\* is visible, returns later when it becomes visible within the timeout, or
\* raises TimeoutError or another playwright Error
WaitOutcomes == {"visible", "visible_late", "timeout", "error"}

WaitSucceeded(outcome) == outcome \in {"visible", "visible_late"}

Waited(landmark, outcome) == [landmark |-> landmark, outcome |-> outcome]

\* except Exception: return False
is_loaded_except_Reraise(call) == [call EXCEPT !.state = "done", !.result = FALSE, !.raised = TRUE]

is_loaded_except(call) == [call EXCEPT !.state = "done", !.result = FALSE, !.raised = FALSE]

UtilOp == UNCHANGED browserVars

IsLoadedCall ==
    \E page \in PageObjects :
        /\ loadCall.state # "waiting"
        /\ loadCall' = [page |-> page, state |-> "waiting", waited |-> <<>>,
                        result |-> FALSE, raised |-> FALSE]
        /\ UtilOp
        /\ UNCHANGED exceptLoadCall

IsLoadedWait ==
    \E outcome \in WaitOutcomes :
        LET next == Len(loadCall.waited) + 1
            call == [loadCall EXCEPT
                        !.waited = Append(@, Waited(Landmarks(loadCall.page)[next], outcome))]
        IN  /\ loadCall.state = "waiting"
            /\ next <= Len(Landmarks(loadCall.page))
            /\ loadCall' = IF WaitSucceeded(outcome) THEN call ELSE is_loaded_except(call)
            /\ UtilOp
            /\ UNCHANGED exceptLoadCall

IsLoadedReturnTrue ==
    /\ loadCall.state = "waiting"
    /\ Len(loadCall.waited) = Len(Landmarks(loadCall.page))
    /\ loadCall' = [loadCall EXCEPT !.state = "done", !.result = TRUE]
    /\ UtilOp
    /\ UNCHANGED exceptLoadCall

InitLoaded ==
    /\ InitUtil
    /\ url = LoginURL
    /\ fields = BlankForm
    /\ banner = NoBanner
    /\ prevUrl = LoginURL
    /\ filled = BlankForm
    /\ submitted = BlankForm
    /\ labels = NoLabels
    /\ summary = NoSummary
    /\ cart = <<>>
    /\ prevCart = <<>>
    /\ attempted = <<>>
    /\ displayed = <<>>
    /\ prevDisplayed = <<>>
    /\ sortOption = "az"
    /\ loginForm = NoCredentials
    /\ credentials = NoCredentials
    /\ pendingRedirect = FALSE
    /\ lastOp = "init"
    /\ arg = <<>>
    /\ ret = "None"
    /\ raised = FALSE

NextLoaded ==
    \/ IsLoadedCall
    \/ IsLoadedWait
    \/ IsLoadedReturnTrue

SpecLoaded == InitLoaded /\ [][NextLoaded]_vars

\* C12: a load-readiness call never raises; it waits for the landmarks of
\* its page in order and for none after a failed wait; it returns True only
\* after every landmark wait succeeded and False as soon as one failed or
\* timed out.
C12_LoadedNeverRaises ==
    LET w == loadCall.waited
    IN  /\ ~loadCall.raised
        /\ loadCall.state # "idle" =>
               /\ Len(w) <= Len(Landmarks(loadCall.page))
               /\ \A i \in 1..Len(w) : w[i].landmark = Landmarks(loadCall.page)[i]
               /\ \A i \in 1..(Len(w) - 1) : w[i].outcome \in {"visible", "visible_late"}
        /\ loadCall.state = "done" =>
               loadCall.result =
                   (/\ Len(w) = Len(Landmarks(loadCall.page))
                    /\ \A i \in 1..Len(w) : w[i].outcome \in {"visible", "visible_late"})
        /\ (loadCall.state = "waiting" /\ Len(w) > 0) =>
               w[Len(w)].outcome \in {"visible", "visible_late"}

C12_Witness ==
    /\ loadCall.state = "done"
    /\ loadCall.page = "LoginPage"
    /\ Len(loadCall.waited) = 2
    /\ loadCall.waited[2].outcome = "timeout"
    /\ loadCall.result = FALSE

C12_WitnessTrue ==
    /\ loadCall.state = "done"
    /\ loadCall.page = "CartPage"
    /\ loadCall.result = TRUE

(***************************************************************************)
(* Helpers called while their target element is absent.                    *)
(***************************************************************************)
\* ProductsPage.get_product_details: text_content() of a child of the card
\* times out when no card matches; re-raised as ElementNotFoundError
get_product_details(d, product_name) ==
    LET i == FirstCard(d, product_name)
    IN  IF i = 0 THEN [value |-> <<>>, raised |-> TRUE]
        ELSE [value |-> <<d[i].name, d[i].desc, <<"$", d[i].priceCents>> >>, raised |-> FALSE]

GetProductDetails ==
    \E product_name \in ProductNames :
        LET r == get_product_details(displayed, product_name)
        IN  /\ ShopOp("get_product_details", product_name)
            /\ attempted' = <<>>
            /\ ret' = r.value
            /\ raised' = r.raised
            /\ UNCHANGED cart

ErrorBannerIsVisible ==
    /\ ReadOp("is_visible")
    /\ ret' = ErrorBanner_is_visible

ErrorBannerGetMessage ==
    /\ ReadOp("get_message")
    /\ ret' = ErrorBanner_get_message

NextAbsent ==
    \/ AddProductToCart
    \/ RemoveProductFromCart
    \/ GetProductDetails
    \/ IsProductInCart
    \/ GetCartBadgeCount
    \/ CartIconGetCount
    \/ GoToCart
    \/ RemoveItem
    \/ ProceedToCheckout
    \/ ContinueCheckout
    \/ ErrorBannerIsVisible
    \/ ErrorBannerGetMessage
    \/ DismissError

SpecAbsent == InitShop /\ [][NextAbsent]_vars

AbsorbingHelpers ==
    {"is_product_in_cart", "get_cart_badge_count", "get_count", "is_visible",
     "get_message", "dismiss"}

ByNameOps == {"add_product_to_cart", "remove_product_from_cart", "get_product_details"}

\* C13 as stated: no helper raises, the by-name add, remove and detail
\* operations included.
C13_NoHelperRaises ==
    lastOp \in AbsorbingHelpers \cup ByNameOps => ~raised

\* C13, amended: the visibility checks, the banner's message and dismiss,
\* the badge counts and the in-cart check return False, an empty text or 0
\* when their element is absent; the by-name add, remove and detail
\* operations raise (ElementNotFoundError) when no card matches the name,
\* and leave the cart as it was.
C13_AbsentElement ==
    /\ lastOp \in AbsorbingHelpers => ~raised
    /\ (lastOp = "is_product_in_cart" /\ FirstCard(displayed, arg) = 0) => ret = FALSE
    /\ (lastOp \in {"get_cart_badge_count", "get_count"} /\ ~SiteBadge(cart).present) => ret = 0
    /\ (lastOp = "is_visible" /\ ~ErrorContainer.present) => ret = FALSE
    /\ (lastOp = "get_message" /\ ~ErrorContainer.present) => ret = <<>>
    /\ (lastOp \in ByNameOps /\ FirstCard(displayed, arg) = 0) => (raised /\ cart = prevCart)

C13_Witness ==
    /\ lastOp = "add_product_to_cart"
    /\ FirstCard(displayed, arg) = 0
    /\ Len(displayed) > 0
    /\ raised

C13_WitnessAbsorbed ==
    /\ lastOp = "is_product_in_cart"
    /\ FirstCard(displayed, arg) = 0
    /\ ret = FALSE

(***************************************************************************)
(* Products page claims                                                    *)
(***************************************************************************)
ProductsReportedInCart ==
    {i \in 1..Len(displayed) : is_product_in_cart(displayed, cart, displayed[i].name)}

\* C14: after any sequence of add and remove operations on the products
\* page, the badge count equals the number of listed products for which
\* is_product_in_cart is True, and it is 0 exactly when the badge is not
\* visible.
C14_BadgeCountsProductsInCart ==
    /\ get_cart_badge_count(cart) = Cardinality(ProductsReportedInCart)
    /\ CartIcon_get_count(cart) = Cardinality(ProductsReportedInCart)
    /\ (get_cart_badge_count(cart) = 0) <=> ~SiteBadge(cart).visible

\* C15: on a listing with distinct names and an empty cart,
\* add_all_products_to_cart completes without error, and afterwards the
\* badge count equals get_product_count and every listed product is in the
\* cart exactly once.
C15_AddAllAddsEveryProduct ==
    (/\ lastOp = "add_all_products_to_cart"
     /\ prevCart = <<>>
     /\ DistinctNames(displayed)) =>
        /\ ~raised
        /\ get_cart_badge_count(cart) = get_product_count(displayed)
        /\ \A i \in 1..Len(displayed) :
               Cardinality({k \in 1..Len(cart) : cart[k] = displayed[i]}) = 1

(***************************************************************************)
(* Navigation: BasePage.navigate, page_helpers.navigate_to and             *)
(* PageNavigator.go.  Each builds the target URL, awaits page.goto and     *)
(* then the load-state waits; every await is one step of the call.         *)
(***************************************************************************)
NavEntries == {"BasePage.navigate", "navigate_to", "PageNavigator.go"}

\* The path argument; only BasePage.navigate has a default, None.
NavPaths(entry) ==
    IF entry = "BasePage.navigate"
    THEN {"None", "", LoginURL, InventoryURL, CartURL}
    ELSE {"", LoginURL, InventoryURL, CartURL}

\* self.url of the page object: "" in BasePage, overridden in subclasses.
NavSelfUrls(entry) == IF entry = "BasePage.navigate" THEN {"", InventoryURL} ELSE {""}

base_url == "settings.base_url"

\* f"{settings.base_url}{path}"; BasePage.navigate takes path or self.url
target_url(entry, path, self_url) ==
    IF entry = "BasePage.navigate" /\ path \in {"None", ""}
    THEN <<base_url, self_url>>
    ELSE <<base_url, path>>

\* page.goto and page.wait_for_load_state return, or raise TimeoutError or
\* another playwright Error
AwaitOutcomes == {"ok", "timeout", "error"}

NavEvent(step, what, outcome) == [step |-> step, what |-> what, outcome |-> outcome]

\* except Exception as e: logger.warning(...)
wait_for_load_except_Reraise(call) == [call EXCEPT !.state = "raised"]

wait_for_load_except(call) == [call EXCEPT !.state = "returned"]

NavOp == UNCHANGED <<browserVars, exceptNavCall>>

NavigateCall ==
    \E entry \in NavEntries :
        \E path \in NavPaths(entry), self_url \in NavSelfUrls(entry) :
            /\ navCall.state \in {"idle", "returned", "raised"}
            /\ navCall' = [entry |-> entry, path |-> path, self_url |-> self_url,
                           state |-> "goto", events |-> <<>>]
            /\ NavOp

\* await page.goto(target_url, wait_until="domcontentloaded"): outside any
\* try, so a failure leaves the call
NavGoto ==
    \E outcome \in AwaitOutcomes :
        LET target == target_url(navCall.entry, navCall.path, navCall.self_url)
            call == [navCall EXCEPT !.events = Append(@, NavEvent("goto", target, outcome))]
        IN  /\ navCall.state = "goto"
            /\ navCall' = IF outcome = "ok"
                          THEN [call EXCEPT !.state = "wait_load"]
                          ELSE [call EXCEPT !.state = "raised"]
            /\ NavOp

\* await page.wait_for_load_state("load", timeout=...)
NavWaitLoad ==
    \E outcome \in AwaitOutcomes :
        LET call == [navCall EXCEPT
                        !.events = Append(@, NavEvent("wait_for_load_state", <<"load">>, outcome))]
        IN  /\ navCall.state = "wait_load"
            /\ navCall' = IF outcome = "ok"
                          THEN [call EXCEPT !.state = "wait_networkidle"]
                          ELSE wait_for_load_except(call)
            /\ NavOp

\* await page.wait_for_load_state("networkidle", timeout=...)
NavWaitNetworkIdle ==
    \E outcome \in AwaitOutcomes :
        LET call == [navCall EXCEPT
                        !.events = Append(@, NavEvent("wait_for_load_state", <<"networkidle">>, outcome))]
        IN  /\ navCall.state = "wait_networkidle"
            /\ navCall' = IF outcome = "ok"
                          THEN [call EXCEPT !.state = "returned"]
                          ELSE wait_for_load_except(call)
            /\ NavOp

NextNavigate ==
    \/ NavigateCall
    \/ NavGoto
    \/ NavWaitLoad
    \/ NavWaitNetworkIdle

SpecNavigate == InitLoaded /\ [][NextNavigate]_vars

\* C17: a navigation first loads base_url + path, then waits for the 'load'
\* state and then for 'networkidle'; the networkidle wait is made only after
\* a successful load wait; a failed wait of either kind ends the navigation
\* normally, and the navigation raises exactly when the goto failed.
C17_NavigateThenWait ==
    LET e == navCall.events
        path == IF navCall.entry = "BasePage.navigate" /\ navCall.path \in {"None", ""}
                THEN navCall.self_url ELSE navCall.path
    IN  navCall.state # "idle" =>
            /\ Len(e) <= 3
            /\ Len(e) >= 1 => (e[1].step = "goto" /\ e[1].what = <<base_url, path>>)
            /\ Len(e) >= 2 => (e[2].step = "wait_for_load_state" /\ e[2].what = <<"load">>)
            /\ Len(e) >= 3 => (e[3].step = "wait_for_load_state" /\ e[3].what = <<"networkidle">>)
            /\ \A i \in 1..(Len(e) - 1) : e[i].outcome = "ok"
            /\ (navCall.state = "raised") = (Len(e) = 1 /\ e[1].outcome # "ok")
            /\ (navCall.state = "returned") =
                   \/ (Len(e) = 2 /\ e[2].outcome # "ok")
                   \/ Len(e) = 3

C17_Witness ==
    /\ navCall.state = "returned"
    /\ Len(navCall.events) = 2
    /\ navCall.events[2].outcome = "timeout"

C17_WitnessGotoFails ==
    /\ navCall.state = "raised"
    /\ navCall.entry = "PageNavigator.go"
    /\ navCall.events = <<NavEvent("goto", <<base_url, CartURL>>, "error")>>

C17_WitnessBothWaits ==
    /\ navCall.state = "returned"
    /\ Len(navCall.events) = 3
    /\ navCall.events[3].outcome = "error"

(***************************************************************************)
(* utils/decorators.py: async_retry.  One step per await of the wrapper:   *)
(* the call of the wrapped function and the sleep between two attempts.    *)
(* Delays are in milliseconds.                                             *)
(***************************************************************************)
MaxAttempts == 3

RetryDelays == {0, 1000}
RetryBackoffs == {1, 2}

\* Exception classes the wrapped function may raise, and the tuples passed
\* as exceptions=; the default (Exception,) catches both.
ExceptionTypes == {"TimeoutError", "ValueError"}
ExceptionTuples == {{"TimeoutError"}, ExceptionTypes}

\* What one invocation of the wrapped function does.
Returned(value) == [kind |-> "return", value |-> value]
Raised(type, attempt) == [kind |-> "raise", value |-> <<type, attempt>>]
InvokeOutcomes(attempt) ==
    {Returned("result")} \cup {Raised(type, attempt) : type \in ExceptionTypes}

\* except exceptions as e
is_caught_Any(outcome, exceptions) == outcome.kind = "raise"

is_caught(outcome, exceptions) ==
    outcome.kind = "raise" /\ outcome.value[1] \in exceptions

RetryOp == UNCHANGED <<browserVars, exceptRetryCall>>

\* wrapper entry: current_delay = delay; for attempt in range(1, max_attempts + 1).
\* With max_attempts < 1 the loop body never runs and the wrapper returns None.
RetryCall ==
    \E n \in 0..MaxAttempts, d \in RetryDelays, b \in RetryBackoffs, E \in ExceptionTuples :
        /\ retryCall.state \in {"idle", "returned", "raised"}
        /\ retryCall' = [max_attempts |-> n, delay |-> d, backoff |-> b, exceptions |-> E,
                         state |-> IF n >= 1 THEN "attempt" ELSE "returned",
                         attempt |-> 1, current_delay |-> d,
                         outcomes |-> <<>>, slept |-> <<>>, result |-> Returned("None")]
        /\ RetryOp

\* try: return await func(*args, **kwargs) / except exceptions as e
RetryAttempt ==
    \E outcome \in InvokeOutcomes(retryCall.attempt) :
        LET call == [retryCall EXCEPT !.outcomes = Append(@, outcome)]
        IN  /\ retryCall.state = "attempt"
            /\ retryCall' =
                   IF outcome.kind = "return"
                   THEN [call EXCEPT !.state = "returned", !.result = outcome]
                   ELSE IF ~is_caught(outcome, retryCall.exceptions)
                   THEN [call EXCEPT !.state = "raised", !.result = outcome]
                   ELSE IF retryCall.attempt = retryCall.max_attempts
                   THEN [call EXCEPT !.state = "raised", !.result = outcome]
                   ELSE [call EXCEPT !.state = "sleep"]
            /\ RetryOp

\* await asyncio.sleep(current_delay); current_delay *= backoff
RetrySleep ==
    /\ retryCall.state = "sleep"
    /\ retryCall' = [retryCall EXCEPT !.slept = Append(@, retryCall.current_delay),
                                      !.current_delay = @ * retryCall.backoff,
                                      !.attempt = @ + 1,
                                      !.state = "attempt"]
    /\ RetryOp

NextRetry ==
    \/ RetryCall
    \/ RetryAttempt
    \/ RetrySleep

SpecRetry == InitLoaded /\ [][NextRetry]_vars

RetryEnded == retryCall.state \in {"returned", "raised"}

\* C18: with max_attempts = n >= 1 the wrapped function is invoked at most n
\* times; the wrapper returns the result of the first successful attempt
\* and invokes nothing after it; when all n attempts raise an exception of
\* the listed classes it raises the exception of the n-th attempt; an
\* exception of another class leaves the wrapper at once.
C18_AtMostNAttempts ==
    LET o == retryCall.outcomes
        n == retryCall.max_attempts
        listed(i) == o[i].kind = "raise" /\ o[i].value[1] \in retryCall.exceptions
    IN  (retryCall.state # "idle" /\ n >= 1) =>
            /\ Len(o) <= n
            /\ \A i \in 1..(Len(o) - 1) : listed(i)
            /\ (Len(o) >= 1 /\ ~listed(Len(o))) =>
                   /\ RetryEnded
                   /\ retryCall.result = o[Len(o)]
                   /\ (retryCall.state = "returned") = (o[Len(o)].kind = "return")
            /\ (Len(o) = n /\ listed(n)) =>
                   /\ retryCall.state = "raised"
                   /\ retryCall.result = Raised(o[n].value[1], n)
            /\ RetryEnded => Len(o) >= 1

C18_Witness ==
    /\ retryCall.state = "raised"
    /\ retryCall.max_attempts = 3
    /\ retryCall.exceptions = {"TimeoutError"}
    /\ retryCall.outcomes = <<Raised("TimeoutError", 1), Raised("ValueError", 2)>>

C18_WitnessExhausted ==
    /\ retryCall.state = "raised"
    /\ retryCall.max_attempts = 3
    /\ Len(retryCall.outcomes) = 3
    /\ retryCall.result = Raised("TimeoutError", 3)

C18_WitnessSuccess ==
    /\ retryCall.state = "returned"
    /\ retryCall.max_attempts = 3
    /\ Len(retryCall.outcomes) = 2
    /\ retryCall.result = Returned("result")

\* C19: when every attempt fails, the waits between the attempts are delay,
\* delay*backoff, delay*backoff^2, ...; with max_attempts=3, delay=1.0 and
\* backoff=2.0 the waits made before the failure is raised are 1s, 2s and 4s.
C19_BackoffDelays ==
    LET s == retryCall.slept
    IN  /\ Len(s) >= 1 => s[1] = retryCall.delay
        /\ \A i \in 2..Len(s) : s[i] = s[i - 1] * retryCall.backoff
        /\ (/\ retryCall.state = "raised"
            /\ Len(retryCall.outcomes) = retryCall.max_attempts
            /\ retryCall.max_attempts = 3
            /\ retryCall.delay = 1000
            /\ retryCall.backoff = 2) => s = <<1000, 2000, 4000>>

(***************************************************************************)
(* utils/decorators.py: cache_result.  The cache is a dict keyed by the    *)
(* text str((args, sorted(kwargs.items()))); time.time() is a clock in     *)
(* whole seconds.  Calls are made one after another.                       *)
(***************************************************************************)
\* if cache_key in cache: ... if ttl is None or (time.time() - timestamp) < ttl
is_cached(c, key, now) ==
    /\ c.cache[key].present
    /\ c.ttl.none \/ (now - c.cache[key].timestamp) < c.ttl.seconds

CacheOp == UNCHANGED <<browserVars, exceptCacheCall>>

\* cache_result(ttl): a new, empty cache
CacheDecorate ==
    \E ttl \in Ttls :
        /\ cacheCall.state = "idle"
        /\ cacheCall' = [cacheCall EXCEPT !.state = "decorated", !.ttl = ttl]
        /\ CacheOp

\* time passes between two calls
CacheTick ==
    /\ cacheCall.state # "idle"
    /\ cacheCall.now < MaxTime
    /\ cacheCall' = [cacheCall EXCEPT !.now = @ + 1]
    /\ CacheOp

\* wrapper: a call that finds a live entry
CacheHit ==
    \E a \in CacheArgs :
        /\ cacheCall.state # "idle"
        /\ is_cached(cacheCall, cache_key(a), cacheCall.now)
        /\ cacheCall' = [cacheCall EXCEPT
                            !.state = "called",
                            !.last = [args |-> a, at |-> cacheCall.now, done |-> cacheCall.now,
                                      invoked |-> FALSE, raised |-> FALSE,
                                      result |-> cacheCall.cache[cache_key(a)].result,
                                      before |-> cacheCall.stored]]
        /\ CacheOp

\* wrapper: result = await func(...); cache[cache_key] = (result, time.time()).
\* The function takes some time and returns a value of its own for every
\* invocation, or raises.
CacheMiss ==
    \E a \in CacheArgs, took \in {0, 1}, fails \in BOOLEAN :
        LET n == cacheCall.invocations + 1
            result == <<a, n>>
            done == cacheCall.now + took
        IN  /\ cacheCall.state # "idle"
            /\ ~is_cached(cacheCall, cache_key(a), cacheCall.now)
            /\ n <= MaxInvocations
            /\ done <= MaxTime
            /\ cacheCall' =
                   [cacheCall EXCEPT
                       !.state = "called",
                       !.invocations = n,
                       !.now = done,
                       !.cache = IF fails THEN @
                                 ELSE [@ EXCEPT ![cache_key(a)] = Entry(result, done)],
                       !.stored = IF fails THEN @
                                  ELSE [@ EXCEPT ![a] = Entry(result, done)],
                       !.last = [args |-> a, at |-> cacheCall.now, done |-> done,
                                 invoked |-> TRUE, raised |-> fails,
                                 result |-> IF fails THEN <<>> ELSE result,
                                 before |-> cacheCall.stored]]
            /\ CacheOp

NextCache ==
    \/ CacheDecorate
    \/ CacheTick
    \/ CacheHit
    \/ CacheMiss

SpecCache == InitLoaded /\ [][NextCache]_vars

\* C20: a call whose arguments equal those of an earlier successful
\* invocation stored less than ttl seconds before (or at any time before,
\* with ttl=None) returns that stored result and invokes nothing; a call
\* made ttl seconds or more after it invokes the function and replaces the
\* entry and its timestamp; a call that invokes nothing returns a result
\* stored for equal arguments, never one stored for different arguments.
C20_CachePerArguments ==
    LET a == cacheCall.last.args
        at == cacheCall.last.at
        before == cacheCall.last.before
        equal == {b \in CacheArgs : PyEq(a, b) /\ before[b].present}
        live(b) == cacheCall.ttl.none \/ (at - before[b].timestamp) < cacheCall.ttl.seconds
    IN  cacheCall.state = "called" =>
            /\ (\E b \in equal : live(b)) =>
                   /\ ~cacheCall.last.invoked
                   /\ \E b \in equal : live(b) /\ cacheCall.last.result = before[b].result
            /\ (equal # {} /\ \A b \in equal : ~live(b)) =>
                   /\ cacheCall.last.invoked
                   /\ ~cacheCall.last.raised =>
                          cacheCall.cache[cache_key(a)] =
                              Entry(cacheCall.last.result, cacheCall.last.done)
            /\ ~cacheCall.last.invoked =>
                   \E b \in equal : cacheCall.last.result = before[b].result

(***************************************************************************)
(* add_multiple_products_to_cart on a products page                        *)
(***************************************************************************)
InitMultiple ==
    /\ InitShop
    /\ displayed \in E2EListings

NextMultiple ==
    \/ AddMultipleProductsToCart
    \/ AddProductToCart
    \/ RemoveProductFromCart

SpecMultiple == InitMultiple /\ [][NextMultiple]_vars

\* C26: when add_multiple_products_to_cart fails on the k-th name, the error
\* leaves the call at once: names 1..k are the only ones attempted, the k-th
\* cannot be added, and the cart holds what it held before followed by the
\* products added for names 1..k-1; without a failure every name was
\* attempted and added.
C26_NoRollbackNoFurtherAttempt ==
    LET k == Len(attempted)
        added(j) == displayed[FirstCard(displayed, arg[j])]
    IN  lastOp = "add_multiple_products_to_cart" =>
            /\ k <= Len(arg)
            /\ attempted = SubSeq(arg, 1, k)
            /\ raised =>
                   /\ k >= 1
                   /\ add_product_to_cart(displayed, cart, arg[k]).raised
                   /\ Len(cart) = Len(prevCart) + k - 1
                   /\ SubSeq(cart, 1, Len(prevCart)) = prevCart
                   /\ \A j \in 1..(k - 1) : cart[Len(prevCart) + j] = added(j)
            /\ ~raised =>
                   /\ k = Len(arg)
                   /\ Len(cart) = Len(prevCart) + k
                   /\ \A j \in 1..k : cart[Len(prevCart) + j] = added(j)

C26_Witness ==
    /\ lastOp = "add_multiple_products_to_cart"
    /\ raised
    /\ Len(arg) = 2
    /\ Len(attempted) = 2
    /\ Len(cart) = Len(prevCart) + 1

C26_WitnessNotAttempted ==
    /\ lastOp = "add_multiple_products_to_cart"
    /\ raised
    /\ Len(arg) = 2
    /\ attempted = <<arg[1]>>
    /\ cart = prevCart

(***************************************************************************)
(* utils/helpers.py: sanitize_filename.  A string is the sequence of its   *)
(* characters.                                                             *)
(***************************************************************************)
MaxFilenameLen == 3

\* Characters file names are built from: a letter, the characters of the
\* documented example that are not letters or digits, and a backslash.
FilenameChars == {"t", ":", " ", "#", "_", ".", "\\"}

DocumentedFilename ==
    <<"t", "e", "s", "t", ":", " ", "r", "e", "s", "u", "l", "t", "s", " ", "#", "1", ".", "t", "x", "t">>

Filenames == SeqsUpTo(FilenameChars, MaxFilenameLen) \cup {DocumentedFilename}

\* the character class [<>:"/\\|?*]
InvalidChars == {"<", ">", ":", "\"", "/", "\\", "|", "?", "*"}

\* re.sub(r'[<>:"/\\|?*]', "_", filename)
ReplaceInvalid(filename) ==
    [i \in 1..Len(filename) |-> IF filename[i] \in InvalidChars THEN "_" ELSE filename[i]]

\* re.sub(r"_+", "_", filename): an underscore that follows an underscore
\* is dropped
RECURSIVE CollapseUnderscores(_)
CollapseUnderscores(filename) ==
    IF Len(filename) <= 1 THEN filename
    ELSE IF filename[1] = "_" /\ filename[2] = "_"
    THEN CollapseUnderscores(Tail(filename))
    ELSE <<filename[1]>> \o CollapseUnderscores(Tail(filename))

\* filename.strip("_ ")
RECURSIVE StripLeft(_, _)
StripLeft(filename, chars) ==
    IF filename # <<>> /\ filename[1] \in chars THEN StripLeft(Tail(filename), chars)
    ELSE filename

RECURSIVE StripRight(_, _)
StripRight(filename, chars) ==
    IF filename # <<>> /\ filename[Len(filename)] \in chars
    THEN StripRight(SubSeq(filename, 1, Len(filename) - 1), chars)
    ELSE filename

Strip(filename, chars) == StripRight(StripLeft(filename, chars), chars)

sanitize_filename(filename) ==
    Strip(CollapseUnderscores(ReplaceInvalid(filename)), {"_", " "})

HelperOp == UNCHANGED <<browserVars, exceptHelperCall>>

SanitizeFilename ==
    \E filename \in Filenames :
        /\ helperCall.name = "none"
        /\ helperCall' = [name |-> "sanitize_filename", input |-> filename,
                          output |-> sanitize_filename(filename)]
        /\ HelperOp

NextSanitize ==
    \/ SanitizeFilename

SpecSanitize == InitLoaded /\ [][NextSanitize]_vars

\* C25: sanitize_filename maps 'test: results #1.txt' to 'test_results_1.txt':
\* the colon, the spaces and the '#' are gone from the result, which holds no
\* run of underscores and no leading or trailing underscore or space.
C25_DocumentedExample ==
    LET out == helperCall.output
    IN  (helperCall.name = "sanitize_filename" /\ helperCall.input = DocumentedFilename) =>
            /\ out = <<"t", "e", "s", "t", "_", "r", "e", "s", "u", "l", "t", "s", "_", "1", ".", "t", "x", "t">>
            /\ \A i \in 1..Len(out) : out[i] \notin {":", " ", "#"}
            /\ \A i \in 1..(Len(out) - 1) : ~(out[i] = "_" /\ out[i + 1] = "_")
            /\ out[1] \notin {"_", " "} /\ out[Len(out)] \notin {"_", " "}

(***************************************************************************)
(* utils/decorators.py: rate_limit.  Several callers await the wrapper on  *)
(* one event loop; a caller runs without interruption between two awaits.  *)
(* Time is in whole seconds.                                               *)
(***************************************************************************)
\* rate_limit(calls, period), with period / calls a whole number of seconds
RateLimits == {[calls |-> 1, period |-> 2], [calls |-> 2, period |-> 2], [calls |-> 1, period |-> 3]}

min_interval(limit) == limit.period \div limit.calls

RateOp == UNCHANGED <<browserVars, exceptRateCall>>

RateDecorate ==
    \E limit \in RateLimits :
        /\ rateCall.state = "idle"
        /\ rateCall' = [rateCall EXCEPT !.state = "decorated", !.limit = limit]
        /\ RateOp

\* last_called = time.time(); return await func(*args, **kwargs)
Invoke(call, caller) ==
    [call EXCEPT !.last_called = call.now,
                 !.started = Append(@, call.now),
                 !.pc[caller] = "invoked"]

\* wrapper entry: elapsed = time.time() - last_called; a caller that is too
\* early goes to sleep, any other invokes the function at once
RateEnter ==
    \E caller \in RateCallers :
        LET elapsed == rateCall.now - rateCall.last_called
            sleep_time == min_interval(rateCall.limit) - elapsed
        IN  /\ rateCall.state = "decorated"
            /\ rateCall.pc[caller] = "idle"
            /\ rateCall' =
                   IF elapsed < min_interval(rateCall.limit)
                   THEN [rateCall EXCEPT !.pc[caller] = "sleeping",
                                         !.wake[caller] = rateCall.now + sleep_time]
                   ELSE Invoke(rateCall, caller)
            /\ RateOp

\* asyncio.sleep(sleep_time) is over: the caller goes on without looking at
\* last_called again
RateWake ==
    \E caller \in RateCallers :
        /\ rateCall.pc[caller] = "sleeping"
        /\ rateCall.now >= rateCall.wake[caller]
        /\ rateCall' = Invoke(rateCall, caller)
        /\ RateOp

RateTick ==
    /\ rateCall.state = "decorated"
    /\ rateCall.now < MaxClock
    /\ rateCall' = [rateCall EXCEPT !.now = @ + 1]
    /\ RateOp

NextRate ==
    \/ RateDecorate
    \/ RateEnter
    \/ RateWake
    \/ RateTick

SpecRate == InitLoaded /\ [][NextRate]_vars

\* C21: any two invocations of the wrapped function start at least
\* period/calls seconds apart, and at most `calls` invocations start within
\* any window of `period` seconds.
C21_InvocationsSpaced ==
    LET s == rateCall.started
    IN  rateCall.state = "decorated" =>
            /\ \A i, j \in 1..Len(s) :
                   i < j => s[j] - s[i] >= min_interval(rateCall.limit)
            /\ \A t \in 0..MaxClock :
                   Cardinality({i \in 1..Len(s) : t <= s[i] /\ s[i] < t + rateCall.limit.period})
                       <= rateCall.limit.calls

(***************************************************************************)
(* utils/helpers.py: wait_for_condition.  One step for the evaluation of   *)
(* the condition with the timeout test that follows it, one for the sleep. *)
(* Time is in units of half a second.                                      *)
(***************************************************************************)
\* most evaluations of the condition in a row during which the clock reads the same
MaxStill == 2

WaitTimeouts == {0, 1, 3}
WaitPollIntervals == {0, 1}

\* condition() returns something truthy, something falsy, or raises
ConditionOutcomes == {"truthy", "falsy", "raise"}

\* except Exception as e: logger.debug(...)
condition_except_Propagate(call) == [call EXCEPT !.state = "raised", !.error = "ValueError"]

condition_except(call) == call

WaitOp == UNCHANGED <<browserVars, exceptWaitCall>>

\* start_time = loop.time(); while True:
WaitForCondition ==
    \E timeout \in WaitTimeouts, poll_interval \in WaitPollIntervals :
        /\ waitCall.state \in {"idle", "returned", "raised"}
        /\ waitCall' = [state |-> "check", timeout |-> timeout, poll_interval |-> poll_interval,
                        elapsed |-> 0, still |-> 0, outcomes |-> <<>>, error |-> "none"]
        /\ WaitOp

\* try: if condition(): return True / except Exception; then
\* elapsed = loop.time() - start_time; if elapsed >= timeout_seconds: raise.
\* The evaluation takes no measurable time or one unit; the clock does not
\* stand still for more than MaxStill evaluations in a row.
WaitCheck ==
    \E outcome \in ConditionOutcomes, took \in {0, 1} :
        LET evaluated == [waitCall EXCEPT !.outcomes = Append(@, outcome),
                                          !.elapsed = @ + took,
                                          !.still = IF took = 0 THEN @ + 1 ELSE 0]
            handled == IF outcome = "raise" THEN condition_except(evaluated) ELSE evaluated
        IN  /\ waitCall.state = "check"
            /\ took = 0 => waitCall.still < MaxStill
            /\ waitCall' =
                   IF outcome = "truthy" THEN [evaluated EXCEPT !.state = "returned"]
                   ELSE IF handled.state = "raised" THEN handled
                   ELSE IF handled.elapsed >= handled.timeout
                   THEN [handled EXCEPT !.state = "raised", !.error = "TimeoutError"]
                   ELSE [handled EXCEPT !.state = "sleep"]
            /\ WaitOp

\* await asyncio.sleep(poll_seconds)
WaitSleep ==
    /\ waitCall.state = "sleep"
    /\ waitCall' = [waitCall EXCEPT !.state = "check",
                                    !.elapsed = @ + waitCall.poll_interval,
                                    !.still = IF waitCall.poll_interval = 0 THEN @ ELSE 0]
    /\ WaitOp

NextWait ==
    \/ WaitForCondition
    \/ WaitCheck
    \/ WaitSleep

SpecWait == InitLoaded /\ [][NextWait]_vars

\* The event loop runs a call to its next await and wakes every sleeper.
SpecWaitLive == SpecWait /\ WF_vars(WaitCheck) /\ WF_vars(WaitSleep)

WaitEnded == waitCall.state \in {"returned", "raised"}

WaitOutcomeIsExact ==
    LET o == waitCall.outcomes
    IN  /\ \A i \in 1..(Len(o) - 1) : o[i] # "truthy"
        /\ WaitEnded => Len(o) >= 1
        /\ (waitCall.state = "returned") = (Len(o) >= 1 /\ o[Len(o)] = "truthy")
        /\ waitCall.state = "raised" =>
               /\ waitCall.error = "TimeoutError"
               /\ waitCall.elapsed >= waitCall.timeout
        /\ waitCall.state = "sleep" => waitCall.elapsed < waitCall.timeout

C22_WitnessZeroTimeout ==
    /\ waitCall.state = "returned"
    /\ waitCall.timeout = 0
    /\ waitCall.outcomes = <<"truthy">>

(***************************************************************************)
(* utils/decorators.py: screenshot_on_failure, with helpers.take_screenshot.*)
(* One step for the awaited function, one for the awaited capture.         *)
(***************************************************************************)
MaxArgs == 2

\* Positional arguments: a playwright Page or an object of another class.
\* page=: not passed, None, a Page, or a true object of another class.
PositionalValues == {"Page", "object"}
KeywordPageValues == {"absent", "None", "Page", "object"}

\* What the wrapped function does: returns, raises an Exception (an
\* AssertionError), or raises a BaseException that is no Exception (the
\* pytest.fail outcome, KeyboardInterrupt).
FuncOutcomes == {"return", "AssertionError", "Failed"}

is_Exception(e) == e = "AssertionError"

\* for arg in args: if isinstance(arg, Page) ...; then kwargs["page"]
find_page(args, kwpage) ==
    IF \E i \in 1..Len(args) : args[i] = "Page" THEN "Page"
    ELSE IF kwpage # "absent" THEN kwpage
    ELSE "None"

\* if page:
truthy(page) == page \in {"Page", "object"}

\* take_screenshot with its except Exception left out
take_screenshot_NoCatch(page, capture) ==
    IF page = "Page" /\ capture = "saved"
    THEN [path |-> "screenshot_path", raised |-> "none"]
    ELSE [path |-> "None", raised |-> "ScreenshotError"]

\* helpers.take_screenshot: the path, or None when anything in it fails;
\* page.screenshot fails on an object that is no Page
take_screenshot(page, capture) ==
    IF page = "Page" /\ capture = "saved"
    THEN [path |-> "screenshot_path", raised |-> "none"]
    ELSE [path |-> "None", raised |-> "none"]

ShotOp == UNCHANGED <<browserVars, exceptShotCall>>

ShotCall ==
    \E args \in SeqsUpTo(PositionalValues, MaxArgs), kwpage \in KeywordPageValues :
        /\ shotCall.state \in {"idle", "returned", "raised"}
        /\ shotCall' = [state |-> "func", args |-> args, kwpage |-> kwpage,
                        outcome |-> "none", attempted |-> FALSE, path |-> "None",
                        result |-> "none", error |-> "none"]
        /\ ShotOp

\* try: return await func(*args, **kwargs) / except Exception as e: ...
ShotFunc ==
    \E outcome \in FuncOutcomes :
        LET call == [shotCall EXCEPT !.outcome = outcome]
            page == find_page(shotCall.args, shotCall.kwpage)
        IN  /\ shotCall.state = "func"
            /\ shotCall' =
                   IF outcome = "return"
                   THEN [call EXCEPT !.state = "returned", !.result = "value"]
                   ELSE IF ~is_Exception(outcome)
                   THEN [call EXCEPT !.state = "raised", !.error = outcome]
                   ELSE IF truthy(page)
                   THEN [call EXCEPT !.state = "capture"]
                   ELSE [call EXCEPT !.state = "raised", !.error = outcome]
            /\ ShotOp

\* screenshot_path = await take_screenshot(page, ...); raise
ShotCapture ==
    \E capture \in {"saved", "failed"} :
        LET shot == take_screenshot(find_page(shotCall.args, shotCall.kwpage), capture)
        IN  /\ shotCall.state = "capture"
            /\ shotCall' = [shotCall EXCEPT
                               !.state = "raised",
                               !.attempted = TRUE,
                               !.path = shot.path,
                               !.error = IF shot.raised # "none" THEN shot.raised
                                         ELSE shotCall.outcome]
            /\ ShotOp

NextShot ==
    \/ ShotCall
    \/ ShotFunc
    \/ ShotCapture

SpecShot == InitLoaded /\ [][NextShot]_vars

ShotEnded == shotCall.state \in {"returned", "raised"}

PageAmongPositional == \E i \in 1..Len(shotCall.args) : shotCall.args[i] = "Page"

\* C24 as stated: a normal return is passed on with no screenshot; when the
\* function raises, a screenshot is attempted exactly when a Page is among
\* the positional arguments or under the 'page' keyword, and the original
\* exception is re-raised.
C24_ScreenshotIffPage ==
    ShotEnded =>
        /\ shotCall.outcome = "return" =>
               (shotCall.state = "returned" /\ shotCall.result = "value" /\ ~shotCall.attempted)
        /\ shotCall.outcome # "return" =>
               /\ shotCall.state = "raised"
               /\ shotCall.error = shotCall.outcome
               /\ shotCall.attempted = (PageAmongPositional \/ shotCall.kwpage = "Page")

\* C24: a normal return is passed on with no screenshot; when the function
\* raises an Exception, a screenshot is attempted exactly when a Page is
\* among the positional arguments or anything true was passed as page=
\* (Page or not); a BaseException that is no Exception passes with no
\* screenshot; in every case the original exception is re-raised, also when
\* the capture failed.
C24_ScreenshotOnException ==
    ShotEnded =>
        /\ shotCall.outcome = "return" =>
               (shotCall.state = "returned" /\ shotCall.result = "value" /\ ~shotCall.attempted)
        /\ shotCall.outcome # "return" =>
               /\ shotCall.state = "raised"
               /\ shotCall.error = shotCall.outcome
               /\ shotCall.attempted =
                      /\ shotCall.outcome = "AssertionError"
                      /\ PageAmongPositional \/ shotCall.kwpage \in {"Page", "object"}
               /\ shotCall.path # "None" => shotCall.attempted

C24_Witness ==
    /\ shotCall.state = "raised"
    /\ shotCall.outcome = "AssertionError"
    /\ shotCall.args = <<"object", "Page">>
    /\ shotCall.attempted
    /\ shotCall.path = "None"
    /\ shotCall.error = "AssertionError"

C24_WitnessNotAPage ==
    /\ shotCall.state = "raised"
    /\ shotCall.args = <<>>
    /\ shotCall.kwpage = "object"
    /\ shotCall.attempted

C24_WitnessBaseException ==
    /\ shotCall.state = "raised"
    /\ shotCall.outcome = "Failed"
    /\ shotCall.kwpage = "Page"
    /\ ~shotCall.attempted

(***************************************************************************)
(* utils/logger.py: LoggerManager, setup_logger and get_logger called from *)
(* several threads.  A thread may be preempted between two statements;     *)
(* each step below is one statement of one thread.                         *)
(***************************************************************************)
LogEntries == {"setup_logger", "get_logger", "LoggerManager"}

LogOp == UNCHANGED <<browserVars, exceptLogState>>

\* a thread enters setup_logger(), get_logger(name) or LoggerManager()
LogCall ==
    \E t \in LogThreads, entry \in LogEntries :
        /\ logState.pc[t] \in {"idle", "done"}
        /\ logState' = [logState EXCEPT
                           !.via[t] = entry,
                           !.pc[t] = CASE entry = "setup_logger" -> "setup_check"
                                       [] entry = "get_logger" -> "get_check"
                                       [] OTHER -> "new_check"]
        /\ LogOp

\* get_logger: if _logger_manager is None: setup_logger()
\* setup_logger: if _logger_manager is None: _logger_manager = LoggerManager()
LogCheckManager ==
    \E t \in LogThreads :
        /\ logState.pc[t] \in {"get_check", "setup_check"}
        /\ logState' = [logState EXCEPT
                           !.pc[t] = IF logState.manager # 0
                                     THEN (IF logState.via[t] = "get_logger"
                                           THEN "get_return" ELSE "return")
                                     ELSE (IF logState.pc[t] = "get_check"
                                           THEN "setup_check" ELSE "new_check")]
        /\ LogOp

\* __new__: if cls._instance is None: / cls._instance = super().__new__(cls)
\* / return cls._instance
LogNew ==
    \E t \in LogThreads :
        /\ logState.pc[t] \in {"new_check", "new_create", "new_return"}
        /\ logState' =
               CASE logState.pc[t] = "new_check" ->
                        [logState EXCEPT !.pc[t] = IF logState.instance = 0
                                                   THEN "new_create" ELSE "new_return"]
                 [] logState.pc[t] = "new_create" ->
                        [logState EXCEPT !.created = @ + 1,
                                         !.instance = logState.created + 1,
                                         !.pc[t] = "new_return"]
                 [] OTHER ->
                        [logState EXCEPT !.self[t] = logState.instance,
                                         !.pc[t] = "init_check"]
        /\ LogOp

\* __init__: if not LoggerManager._initialized: self._setup_logging()
LogInitCheck ==
    \E t \in LogThreads :
        /\ logState.pc[t] = "init_check"
        /\ logState' = IF logState.initialized
                       THEN [logState EXCEPT !.pc[t] = "init_done"]
                       ELSE [logState EXCEPT !.pc[t] = "setup_clear", !.setups = @ + 1]
        /\ LogOp

\* _setup_logging: root_logger.handlers.clear() / addHandler(console_handler)
\* / addHandler(file_handler)
LogSetupLogging ==
    \E t \in LogThreads :
        /\ logState.pc[t] \in {"setup_clear", "setup_console", "setup_file"}
        /\ logState' =
               CASE logState.pc[t] = "setup_clear" ->
                        [logState EXCEPT !.handlers = <<>>, !.pc[t] = "setup_console"]
                 [] logState.pc[t] = "setup_console" ->
                        [logState EXCEPT !.handlers = Append(@, "console"),
                                         !.pc[t] = "setup_file"]
                 [] OTHER ->
                        [logState EXCEPT !.handlers = Append(@, "file"),
                                         !.pc[t] = "set_initialized"]
        /\ LogOp

\* LoggerManager._initialized = True
LogSetInitialized ==
    \E t \in LogThreads :
        /\ logState.pc[t] = "set_initialized"
        /\ logState' = [logState EXCEPT !.initialized = TRUE, !.pc[t] = "init_done"]
        /\ LogOp

\* the constructor returns: the caller of LoggerManager() holds the
\* instance, setup_logger stores it in _logger_manager
LogConstructed ==
    \E t \in LogThreads :
        /\ logState.pc[t] = "init_done"
        /\ logState' =
               IF logState.via[t] = "LoggerManager"
               THEN [logState EXCEPT !.observed[t] = logState.self[t], !.pc[t] = "done"]
               ELSE [logState EXCEPT !.manager = logState.self[t],
                                     !.pc[t] = IF logState.via[t] = "get_logger"
                                               THEN "get_return" ELSE "return"]
        /\ LogOp

\* return _logger_manager.get_logger(name); setup_logger returns None
LogReturn ==
    \E t \in LogThreads :
        /\ logState.pc[t] \in {"get_return", "return"}
        /\ logState' = [logState EXCEPT !.observed[t] = logState.manager, !.pc[t] = "done"]
        /\ LogOp

NextLog ==
    \/ LogCall
    \/ LogCheckManager
    \/ LogNew
    \/ LogInitCheck
    \/ LogSetupLogging
    \/ LogSetInitialized
    \/ LogConstructed
    \/ LogReturn

SpecLog == InitLoaded /\ [][NextLog]_vars

HandlerCount(kind) ==
    Cardinality({i \in 1..Len(logState.handlers) : logState.handlers[i] = kind})

\* C23: under every interleaving of the threads _setup_logging is executed
\* at most once, at most one LoggerManager is ever created, every call that
\* has returned saw the same instance, and the root logger holds at most
\* one console handler and one file handler.
C23_ConfiguredOnce ==
    /\ logState.setups <= 1
    /\ logState.created <= 1
    /\ \A t, u \in LogThreads :
           (logState.observed[t] # 0 /\ logState.observed[u] # 0)
               => logState.observed[t] = logState.observed[u]
    /\ HandlerCount("console") <= 1
    /\ HandlerCount("file") <= 1

=============================================================================
